---- MODULE Spec2Model ----
(***************************************************************************)
(* Payment-ticket subsystem of the snake game: the stateless payment token *)
(* (src/lib/token.ts), the replay guard (lib/store), the price conversion  *)
(* (lib/price), the create-intent route (app/api/payments/create-intent),  *)
(* the verify route (app/api/payments/verify) and the client component     *)
(* that drives them (components/PaymentGate).                              *)
(*                                                                         *)
(* Strings of the program are sequences of one-character strings.  A value *)
(* that is not a string (undefined, null) is the sentinel UNDEFINED.       *)
(***************************************************************************)
EXTENDS Integers, Sequences, FiniteSets, TLC

VARIABLES
    now,            \* Date.now(), in model time units
    env,            \* process.env: PAYMENT_TOKEN_SECRET
    cachedSecret,   \* token.ts: let cachedSecret
    usedTxHashes,   \* store: const usedTxHashes = new Set<string>()
    serverConfig,   \* config: export const serverConfig (isValid)
    reqs,           \* verify route: one record per request being handled
    served,         \* number of verify requests accepted so far
    freshPaid,      \* history: txHash (lower-case) -> fresh paid:true responses
    anyPaid,        \* history: txHash (lower-case) -> paid:true responses
    lastCall,       \* store API: the last call and what it returned
    tok,            \* token library: the token under test and its verification
    intent,         \* create-intent route: the request being handled, its
                    \* response, and the last health response
    instance,       \* the server process: its number, counted from 1
    gate,           \* components/PaymentGate: the mounted component, its
                    \* timers, its calls in flight and the parent's callback
    home            \* app/page and components/SnakeGame: the run ticket, the
                    \* mounted game, its timers, and the runs so far

vars == <<now, env, cachedSecret, usedTxHashes, serverConfig, reqs, served,
          freshPaid, anyPaid, lastCall, tok, intent, instance, gate, home>>

(***************************************************************************)
(* Bounds of the model.                                                    *)
(***************************************************************************)
MaxNow == 3
MaxRequests == 2
MaxBlock == 2
MaxWait == 1
MaxInstances == 2

UNDEFINED == <<"undefined">>

Range(s) == {s[i] : i \in 1..Len(s)}

(***************************************************************************)
(* Character tables.                                                       *)
(***************************************************************************)
UpperLetters ==
    <<"A","B","C","D","E","F","G","H","I","J","K","L","M",
      "N","O","P","Q","R","S","T","U","V","W","X","Y","Z">>

LowerLetters ==
    <<"a","b","c","d","e","f","g","h","i","j","k","l","m",
      "n","o","p","q","r","s","t","u","v","w","x","y","z">>

Digits == <<"0","1","2","3","4","5","6","7","8","9">>

\* printable ASCII, code 32 (space) to 126 (~); "grave" stands for code 96
Ascii ==
    <<" ","!","\"","#","$","%","&","'","(",")","*","+",",","-",".","/">>
    \o Digits
    \o <<":",";","<","=",">","?","@">>
    \o UpperLetters
    \o <<"[","\\","]","^","_","grave">>
    \o LowerLetters
    \o <<"{","|","}","~">>

AsciiCode == [c \in Range(Ascii) |-> 31 + (CHOOSE i \in 1..Len(Ascii) : Ascii[i] = c)]

\* the base64url alphabet (RFC 4648 section 5)
B64 == UpperLetters \o LowerLetters \o Digits \o <<"-","_">>

B64Chars == Range(B64)

B64Index == [c \in Range(B64) |-> (CHOOSE i \in 1..64 : B64[i] = c) - 1]

ToLowerTable ==
    [c \in Range(Ascii) |->
        IF c \in Range(UpperLetters)
        THEN LowerLetters[CHOOSE i \in 1..26 : UpperLetters[i] = c]
        ELSE c]

ToUpperTable ==
    [c \in Range(Ascii) |->
        IF c \in Range(LowerLetters)
        THEN UpperLetters[CHOOSE i \in 1..26 : LowerLetters[i] = c]
        ELSE c]

\* String.prototype.toLowerCase
toLowerCase(s) == [i \in 1..Len(s) |-> ToLowerTable[s[i]]]

\* String.prototype.startsWith
startsWith(s, p) == Len(s) >= Len(p) /\ SubSeq(s, 1, Len(p)) = p

\* String.prototype.split(sep) for a one-character separator: the pieces
\* between consecutive separators
\* a split at the first separator only
splitFirst(s, sep) ==
    LET at == {i \in 1..Len(s) : s[i] = sep}
        first == CHOOSE i \in at : \A j \in at : i <= j
    IN IF at = {} THEN <<s>>
       ELSE <<SubSeq(s, 1, first - 1), SubSeq(s, first + 1, Len(s))>>

split(s, sep) ==
    LET at == {i \in 1..Len(s) : s[i] = sep}
        nth(k) == IF k = 0 THEN 0
                  ELSE IF k > Cardinality(at) THEN Len(s) + 1
                  ELSE CHOOSE i \in at : Cardinality({j \in at : j < i}) = k - 1
    IN [k \in 1..(Cardinality(at) + 1) |-> SubSeq(s, nth(k - 1) + 1, nth(k) - 1)]

(***************************************************************************)
(* Numbers and their decimal text (Number -> String in JSON.stringify,     *)
(* String -> Number in JSON.parse, BigInt(string)).                        *)
(***************************************************************************)
RECURSIVE NumberToString(_)
NumberToString(n) ==
    IF n < 10 THEN <<Digits[n + 1]>>
    ELSE Append(NumberToString(n \div 10), Digits[(n % 10) + 1])

DigitValue(c) == (CHOOSE i \in 1..10 : Digits[i] = c) - 1

IsDigits(s) == Len(s) > 0 /\ \A i \in 1..Len(s) : s[i] \in Range(Digits)

RECURSIVE StringToNumber(_)
StringToNumber(s) ==
    IF Len(s) = 0 THEN 0
    ELSE 10 * StringToNumber(SubSeq(s, 1, Len(s) - 1)) + DigitValue(s[Len(s)])

(***************************************************************************)
(* Buffer.from(text).toString('base64url') and back.                       *)
(***************************************************************************)
Utf8Bytes(s) == [i \in 1..Len(s) |-> AsciiCode[s[i]]]

Utf8String(bytes) ==
    [i \in 1..Len(bytes) |->
        IF bytes[i] >= 32 /\ bytes[i] <= 126 THEN Ascii[bytes[i] - 31] ELSE "?"]

\* three bytes make four characters; a last group of one or two bytes makes
\* two or three characters (no padding)
Base64UrlEncode(bytes) ==
    LET byte(j) == IF j <= Len(bytes) THEN bytes[j] ELSE 0
        group(g) == byte(3 * g + 1) * 65536 + byte(3 * g + 2) * 256 + byte(3 * g + 3)
        sextet(i) ==
            LET n == group((i - 1) \div 4)
                k == (i - 1) % 4
            IN IF k = 0 THEN n \div 262144
               ELSE IF k = 1 THEN (n \div 4096) % 64
               ELSE IF k = 2 THEN (n \div 64) % 64
               ELSE n % 64
    IN [i \in 1..((Len(bytes) * 4 + 2) \div 3) |-> B64[sextet(i) + 1]]

\* Node's decoder reads up to the first character outside the alphabet
Base64Prefix(s) ==
    LET bad == {i \in 1..Len(s) : s[i] \notin B64Chars}
        stop == IF bad = {} THEN Len(s) + 1
                ELSE CHOOSE i \in bad : \A j \in bad : i <= j
    IN SubSeq(s, 1, stop - 1)

Base64UrlDecode(s) ==
    LET t == Base64Prefix(s)
        idx(i) == IF i <= Len(t) THEN B64Index[t[i]] ELSE 0
        group(g) == idx(4 * g + 1) * 262144 + idx(4 * g + 2) * 4096
                    + idx(4 * g + 3) * 64 + idx(4 * g + 4)
        byte(j) ==
            LET n == group((j - 1) \div 3)
                k == (j - 1) % 3
            IN IF k = 0 THEN n \div 65536
               ELSE IF k = 1 THEN (n \div 256) % 256
               ELSE n % 256
    IN [j \in 1..((Len(t) * 3) \div 4) |-> byte(j)]

(***************************************************************************)
(* JSON.stringify and JSON.parse, for objects whose values are strings and *)
(* non-negative integers (the shape of PaymentTokenPayload).               *)
(***************************************************************************)
NULL == [null |-> TRUE]

RECURSIVE JsonEscape(_)
JsonEscape(s) ==
    IF Len(s) = 0 THEN <<>>
    ELSE (IF s[1] = "\"" THEN <<"\\", "\"">>
          ELSE IF s[1] = "\\" THEN <<"\\", "\\">>
          ELSE <<s[1]>>) \o JsonEscape(Tail(s))

\* a string between quotes with nothing escaped
JsonQuoteRaw(s) == <<"\"">> \o s \o <<"\"">>

JsonQuote(s) == <<"\"">> \o JsonEscape(s) \o <<"\"">>

K_walletAddress == <<"w","a","l","l","e","t","A","d","d","r","e","s","s">>
K_treasuryAddress == <<"t","r","e","a","s","u","r","y","A","d","d","r","e","s","s">>
K_requiredAmountWei ==
    <<"r","e","q","u","i","r","e","d","A","m","o","u","n","t","W","e","i">>
K_chainId == <<"c","h","a","i","n","I","d">>
K_expiresAt == <<"e","x","p","i","r","e","s","A","t">>
K_nonce == <<"n","o","n","c","e">>

\* JSON.stringify(payload): the keys in the order of the object literal
JsonStringify(payload) ==
    <<"{">>
    \o JsonQuote(K_walletAddress) \o <<":">> \o JsonQuote(payload.walletAddress)
    \o <<",">>
    \o JsonQuote(K_treasuryAddress) \o <<":">> \o JsonQuote(payload.treasuryAddress)
    \o <<",">>
    \o JsonQuote(K_requiredAmountWei) \o <<":">>
    \o JsonQuote(payload.requiredAmountWei)
    \o <<",">>
    \o JsonQuote(K_chainId) \o <<":">> \o NumberToString(payload.chainId)
    \o <<",">>
    \o JsonQuote(K_expiresAt) \o <<":">> \o NumberToString(payload.expiresAt)
    \o <<",">>
    \o JsonQuote(K_nonce) \o <<":">> \o JsonQuote(payload.nonce)
    \o <<"}">>

\* a parse step: [ok, val, next]; next is the index of the first unread character
ParseFail == [ok |-> FALSE, val |-> <<>>, next |-> 0]

RECURSIVE ParseStringBody(_, _, _)
ParseStringBody(text, i, acc) ==
    IF i > Len(text) THEN ParseFail
    ELSE IF text[i] = "\"" THEN [ok |-> TRUE, val |-> acc, next |-> i + 1]
    ELSE IF text[i] = "\\" THEN
        IF i + 1 <= Len(text) /\ text[i + 1] \in {"\"", "\\", "/"}
        THEN ParseStringBody(text, i + 2, Append(acc, text[i + 1]))
        ELSE ParseFail
    ELSE ParseStringBody(text, i + 1, Append(acc, text[i]))

ParseString(text, i) ==
    IF i <= Len(text) /\ text[i] = "\"" THEN ParseStringBody(text, i + 1, <<>>)
    ELSE ParseFail

RECURSIVE ParseDigits(_, _, _)
ParseDigits(text, i, acc) ==
    IF i <= Len(text) /\ text[i] \in Range(Digits)
    THEN ParseDigits(text, i + 1, Append(acc, text[i]))
    ELSE [ok |-> Len(acc) > 0 /\ (Len(acc) = 1 \/ acc[1] # "0"),
          val |-> acc, next |-> i]

ParseNumber(text, i) ==
    LET d == ParseDigits(text, i, <<>>)
    IN IF d.ok THEN [ok |-> TRUE, val |-> StringToNumber(d.val), next |-> d.next]
       ELSE ParseFail

ParseValue(text, i) ==
    IF i > Len(text) THEN ParseFail
    ELSE IF text[i] = "\"" THEN ParseString(text, i)
    ELSE ParseNumber(text, i)

\* members of an object, from the first key; val is a sequence of
\* <<key, type, value>>, type "string" or "number"
RECURSIVE ParseMembers(_, _, _)
ParseMembers(text, i, acc) ==
    LET k == ParseString(text, i)
    IN IF ~k.ok \/ k.next > Len(text) \/ text[k.next] # ":" THEN ParseFail
       ELSE LET v == ParseValue(text, k.next + 1)
                type == IF text[k.next + 1] = "\"" THEN "string" ELSE "number"
            IN IF ~v.ok \/ v.next > Len(text) THEN ParseFail
               ELSE IF text[v.next] = ","
                    THEN ParseMembers(text, v.next + 1,
                                      Append(acc, <<k.val, type, v.val>>))
               ELSE IF text[v.next] = "}"
                    THEN [ok |-> TRUE, val |-> Append(acc, <<k.val, type, v.val>>),
                          next |-> v.next + 1]
               ELSE ParseFail

\* JSON.parse(text): ok is FALSE where JSON.parse throws
JsonParse(text) ==
    IF Len(text) < 2 \/ text[1] # "{" THEN ParseFail
    ELSE IF text[2] = "}"
         THEN [ok |-> Len(text) = 2, val |-> <<>>, next |-> 3]
    ELSE LET m == ParseMembers(text, 2, <<>>)
         IN IF m.ok /\ m.next = Len(text) + 1 THEN m ELSE ParseFail

\* a number field that is absent (undefined) or not a number
NaN == 0 - 1

\* obj[key] read as a value of the given type: the last member of that name;
\* UNDEFINED (string) or NaN (number) when there is none of that type
JsonGet(obj, key, type) ==
    LET at == {i \in 1..Len(obj) : obj[i][1] = key}
        last == CHOOSE i \in at : \A j \in at : j <= i
    IN IF at # {} /\ obj[last][2] = type THEN obj[last][3]
       ELSE IF type = "string" THEN UNDEFINED ELSE NaN

\* the parsed object seen through the PaymentTokenPayload interface
PayloadOf(obj) ==
    [walletAddress |-> JsonGet(obj, K_walletAddress, "string"),
     treasuryAddress |-> JsonGet(obj, K_treasuryAddress, "string"),
     requiredAmountWei |-> JsonGet(obj, K_requiredAmountWei, "string"),
     chainId |-> JsonGet(obj, K_chainId, "number"),
     expiresAt |-> JsonGet(obj, K_expiresAt, "number"),
     nonce |-> JsonGet(obj, K_nonce, "string")]

(***************************************************************************)
(* createHmac('sha256', secret).update(data).digest('base64url').          *)
(* SHA-256 is stood in for by a keyed polynomial hash of four bytes: a     *)
(* deterministic function of (secret, data) whose value changes whenever   *)
(* one character of data changes.                                          *)
(***************************************************************************)
\* sum over i in lo..hi of bytes[i] * (i * mult), modulo 32749 (a prime)
RECURSIVE PolyHash(_, _, _, _)
PolyHash(bytes, lo, hi, mult) ==
    IF lo > hi THEN 0
    ELSE IF lo = hi THEN (bytes[lo] * ((lo * mult) % 32749)) % 32749
    ELSE LET mid == (lo + hi) \div 2
         IN (PolyHash(bytes, lo, mid, mult) + PolyHash(bytes, mid + 1, hi, mult))
            % 32749

\* a digest of the key alone
HmacDigestKeyOnly(secret, data) ==
    LET input == Utf8Bytes(secret)
        h1 == PolyHash(input, 1, Len(input), 257)
        h2 == PolyHash(input, 1, Len(input), 263)
    IN <<h1 \div 256, h1 % 256, h2 \div 256, h2 % 256>>

HmacDigest(secret, data) ==
    LET input == Utf8Bytes(secret) \o <<0>> \o Utf8Bytes(data)
        h1 == PolyHash(input, 1, Len(input), 257)
        h2 == PolyHash(input, 1, Len(input), 263)
    IN <<h1 \div 256, h1 % 256, h2 \div 256, h2 % 256>>

HmacSha256Base64Url(secret, data) == Base64UrlEncode(HmacDigest(secret, data))

(***************************************************************************)
(* src/lib/token.ts                                                        *)
(***************************************************************************)
DevSecretPrefix == <<"d","e","v","-","s","e","c","r","e","t","-">>
DefaultTreasury == <<"d","e","f","a","u","l","t">>
ProcessPid == <<"4","2">>

Truthy(s) == s # UNDEFINED /\ Len(s) > 0

\* a secret that is read from the environment at every call
getSigningSecretFresh(cached, e) ==
    IF Truthy(e.PAYMENT_TOKEN_SECRET) THEN e.PAYMENT_TOKEN_SECRET
    ELSE IF Truthy(cached) THEN cached
    ELSE DevSecretPrefix
         \o (IF Truthy(e.TREASURY_ADDRESS) THEN e.TREASURY_ADDRESS
             ELSE DefaultTreasury)
         \o <<"-">> \o ProcessPid

\* getSigningSecret(): the value it returns, which is also what it leaves in
\* cachedSecret
getSigningSecret(cached, e) ==
    IF Truthy(cached) THEN cached
    ELSE IF Truthy(e.PAYMENT_TOKEN_SECRET) THEN e.PAYMENT_TOKEN_SECRET
    ELSE DevSecretPrefix
         \o (IF Truthy(e.TREASURY_ADDRESS) THEN e.TREASURY_ADDRESS
             ELSE DefaultTreasury)
         \o <<"-">> \o ProcessPid

\* createPaymentToken(payload), with the secret getSigningSecret() returned
createPaymentToken(payload, secret) ==
    LET payloadJson == JsonStringify(payload)
        payloadBase64 == Base64UrlEncode(Utf8Bytes(payloadJson))
        signature == HmacSha256Base64Url(secret, payloadBase64)
    IN payloadBase64 \o <<".">> \o signature

\* an expiry test that also rejects at the expiry instant
IsExpiredInclusive(payload, t) == payload.expiresAt # NaN /\ t >= payload.expiresAt

\* Date.now() > payload.expiresAt; a comparison with undefined is false
IsExpired(payload, t) == payload.expiresAt # NaN /\ t > payload.expiresAt

\* verifyPaymentToken(token) at time t, with the secret getSigningSecret()
\* returned.  hmac tells whether the signature was computed.
verifyPaymentToken(token, secret, t) ==
    IF token = UNDEFINED THEN
        \* token.split throws a TypeError, caught by the catch block
        [payload |-> NULL, code |-> "VERIFICATION_ERROR", hmac |-> FALSE]
    ELSE
    LET parts == split(token, ".")
    IN IF Len(parts) # 2 THEN
           [payload |-> NULL, code |-> "INVALID_FORMAT", hmac |-> FALSE]
       ELSE
       LET payloadBase64 == parts[1]
           providedSignature == parts[2]
           expectedSignature == HmacSha256Base64Url(secret, payloadBase64)
       IN IF providedSignature # expectedSignature THEN
              [payload |-> NULL, code |-> "INVALID_SIGNATURE", hmac |-> TRUE]
          ELSE
          LET payloadJson == Utf8String(Base64UrlDecode(payloadBase64))
              parsed == JsonParse(payloadJson)
          IN IF ~parsed.ok THEN
                 [payload |-> NULL, code |-> "VERIFICATION_ERROR", hmac |-> TRUE]
             ELSE
             LET payload == PayloadOf(parsed.val)
             IN IF IsExpired(payload, t) THEN
                    [payload |-> NULL, code |-> "EXPIRED", hmac |-> TRUE]
                ELSE [payload |-> payload, code |-> "NONE", hmac |-> TRUE]

(***************************************************************************)
(* viem: isAddress and getAddress.  An address is "0x" and hexadecimal     *)
(* digits (two of them here, forty in viem).  The checksum form upper-cases *)
(* the letters that a hash of the lower-case address selects (keccak256 in *)
(* viem, a sum of character codes here).                                   *)
(***************************************************************************)
HexChars == Range(Digits) \cup {"a","b","c","d","e","f","A","B","C","D","E","F"}

RECURSIVE SumCodes(_)
SumCodes(s) == IF Len(s) = 0 THEN 0 ELSE AsciiCode[s[1]] + SumCodes(Tail(s))

checksumAddress(address) ==
    LET lower == toLowerCase(address)
        hash == SumCodes(lower)
    IN [i \in 1..Len(lower) |->
          IF i > 2 /\ (hash + i) % 2 = 1 THEN ToUpperTable[lower[i]] ELSE lower[i]]

AddressRegex(v) ==
    /\ Len(v) = 4
    /\ SubSeq(v, 1, 2) = <<"0","x">>
    /\ \A i \in 3..Len(v) : v[i] \in HexChars

\* isAddress(address), strict
isAddress(v) ==
    /\ v # UNDEFINED
    /\ AddressRegex(v)
    /\ (toLowerCase(v) = v \/ checksumAddress(v) = v)

\* getAddress(address), for an address that matches the address regex
getAddress(v) == checksumAddress(v)

(***************************************************************************)
(* src/lib/constants.ts                                                    *)
(***************************************************************************)
BASE_CHAIN_ID == 8453
MIN_CONFIRMATIONS == 1

(***************************************************************************)
(* lib/store: the anti-replay set                                          *)
(***************************************************************************)
\* a lookup of the hash as spelled
isTxHashUsedExact(txHash, used) == txHash \in used

\* a marking that stores the hash as spelled
markTxHashAsUsedExact(txHash, used) == used \cup {txHash}

\* a marking that keeps the newest hash only
markTxHashAsUsedOnly(txHash, used) == {toLowerCase(txHash)}

isTxHashUsed(txHash, used) == toLowerCase(txHash) \in used

markTxHashAsUsed(txHash, used) == used \cup {toLowerCase(txHash)}

getUsedTxCount(used) == Cardinality(used)

(***************************************************************************)
(* lib/config: validateConfig, run once when the module is loaded          *)
(***************************************************************************)
\* String.prototype.trim, for leading and trailing spaces
RECURSIVE trim(_)
trim(s) ==
    IF Len(s) > 0 /\ s[1] = " " THEN trim(Tail(s))
    ELSE IF Len(s) > 0 /\ s[Len(s)] = " " THEN trim(SubSeq(s, 1, Len(s) - 1))
    ELSE s

HttpPrefix == <<"h","t","t","p",":","/","/">>
HttpsPrefix == <<"h","t","t","p","s",":","/","/">>
DefaultRpcUrl == HttpsPrefix \o <<"m","a","i","n","n","e","t">>
ZeroAddress == <<"0","x","0","0">>
Production == <<"p","r","o","d","u","c","t","i","o","n">>

\* validateTokenConfig(): valid unless in production without a secret
validateTokenConfig(e) ==
    ~(e.NODE_ENV = Production /\ ~Truthy(e.PAYMENT_TOKEN_SECRET))

\* a validation that reads TREASURY_ADDRESS and BASE_RPC_URL without
\* trimming them
validateConfigUntrimmed(e) ==
    LET rawTreasuryAddress == e.TREASURY_ADDRESS
        treasuryOk == Truthy(rawTreasuryAddress) /\ isAddress(rawTreasuryAddress)
        baseRpcUrl ==
            IF Truthy(e.BASE_RPC_URL) THEN e.BASE_RPC_URL ELSE DefaultRpcUrl
        rpcOk == startsWith(baseRpcUrl, HttpPrefix) \/ startsWith(baseRpcUrl, HttpsPrefix)
        errors ==
            (IF ~Truthy(rawTreasuryAddress) THEN {"TREASURY_ADDRESS missing"}
             ELSE IF ~isAddress(rawTreasuryAddress) THEN {"TREASURY_ADDRESS invalid"}
             ELSE {})
            \cup (IF rpcOk THEN {} ELSE {"BASE_RPC_URL invalid"})
            \cup (IF validateTokenConfig(e) THEN {}
                  ELSE {"PAYMENT_TOKEN_SECRET must be set in production"})
    IN [treasuryAddress |-> IF treasuryOk THEN getAddress(rawTreasuryAddress)
                            ELSE ZeroAddress,
        baseRpcUrl |-> baseRpcUrl,
        isValid |-> errors = {},
        errors |-> errors]

validateConfig(e) ==
    LET rawTreasuryAddress ==
            IF e.TREASURY_ADDRESS = UNDEFINED THEN UNDEFINED
            ELSE trim(e.TREASURY_ADDRESS)
        treasuryOk == Truthy(rawTreasuryAddress) /\ isAddress(rawTreasuryAddress)
        baseRpcUrl ==
            IF e.BASE_RPC_URL # UNDEFINED /\ Truthy(trim(e.BASE_RPC_URL))
            THEN trim(e.BASE_RPC_URL) ELSE DefaultRpcUrl
        rpcOk == startsWith(baseRpcUrl, HttpPrefix) \/ startsWith(baseRpcUrl, HttpsPrefix)
        errors ==
            (IF ~Truthy(rawTreasuryAddress) THEN {"TREASURY_ADDRESS missing"}
             ELSE IF ~isAddress(rawTreasuryAddress) THEN {"TREASURY_ADDRESS invalid"}
             ELSE {})
            \cup (IF rpcOk THEN {} ELSE {"BASE_RPC_URL invalid"})
            \cup (IF validateTokenConfig(e) THEN {}
                  ELSE {"PAYMENT_TOKEN_SECRET must be set in production"})
    IN [treasuryAddress |-> IF treasuryOk THEN getAddress(rawTreasuryAddress)
                            ELSE ZeroAddress,
        baseRpcUrl |-> baseRpcUrl,
        isValid |-> errors = {},
        errors |-> errors]

\* cachedSecret once the config module is loaded: validateTokenConfig calls
\* getSigningSecret() unless it reports the missing production secret
\* a process without a primed secret cache
SecretUnprimed(e) == UNDEFINED

SecretAfterLoad(e) ==
    IF validateTokenConfig(e) THEN getSigningSecret(UNDEFINED, e) ELSE UNDEFINED

(***************************************************************************)
(* app/api/payments/verify: POST                                           *)
(*                                                                         *)
(* A request is handled in the steps between its awaits: the configuration *)
(* check (POST_start), then after `await request.json()` the input checks  *)
(* through the chain-id check (POST_body), then after the awaited receipt  *)
(* and transaction the on-chain checks (POST_rpc), then after the awaited  *)
(* block number the confirmations check and the success (POST_block).      *)
(***************************************************************************)
\* a value of the body that is present and not a string (a number, an object)
NONSTRING == <<"non-string">>

IsString(v) == v # UNDEFINED /\ v # NONSTRING

NoBody == [parsable |-> FALSE, txHash |-> UNDEFINED, token |-> UNDEFINED,
           walletAddress |-> UNDEFINED]
NoReceipt == [status |-> "none", blockNumber |-> NaN]
NoTransaction == [to |-> UNDEFINED, from |-> UNDEFINED, value |-> <<>>]
NoResponse == [status |-> 0, paid |-> FALSE, code |-> "NO_RESPONSE",
               hasRetryable |-> FALSE, retryable |-> FALSE,
               confirmations |-> NaN, required |-> NaN]

\* a failure response that always invites a retry
FailureRetryable(status, code, retryable) ==
    [status |-> status, paid |-> FALSE, code |-> code,
     hasRetryable |-> TRUE, retryable |-> TRUE,
     confirmations |-> NaN, required |-> NaN]

\* NextResponse.json({paid: false, error, code, retryable}, {status})
Failure(status, code, retryable) ==
    [status |-> status, paid |-> FALSE, code |-> code,
     hasRetryable |-> TRUE, retryable |-> retryable,
     confirmations |-> NaN, required |-> NaN]

Pending(confirmations) ==
    [status |-> 400, paid |-> FALSE, code |-> "PENDING_CONFIRMATIONS",
     hasRetryable |-> TRUE, retryable |-> TRUE,
     confirmations |-> confirmations, required |-> MIN_CONFIRMATIONS]

AlreadyVerified ==
    [status |-> 200, paid |-> TRUE, code |-> "ALREADY_VERIFIED",
     hasRetryable |-> FALSE, retryable |-> FALSE,
     confirmations |-> NaN, required |-> NaN]

\* the success response carries no code
Paid(confirmations) ==
    [status |-> 200, paid |-> TRUE, code |-> "NONE",
     hasRetryable |-> FALSE, retryable |-> FALSE,
     confirmations |-> confirmations, required |-> NaN]

\* an internal error reported as final
InternalErrorFinal == Failure(500, "INTERNAL_ERROR", FALSE)

\* the response of the outer catch
InternalError == Failure(500, "INTERNAL_ERROR", TRUE)

IdleRequest ==
    [pc |-> "idle", body |-> NoBody, usedAtStart |-> FALSE,
     tokenPayload |-> NULL, tokenCheckedAt |-> NaN, tokenCalls |-> 0,
     envSecret |-> UNDEFINED, secret |-> UNDEFINED, instance |-> 0,
     rpcCalls |-> 0,
     receipt |-> NoReceipt,
     transaction |-> NoTransaction, currentBlock |-> NaN, resp |-> NoResponse]

\* the input validation of the body: the code of the failure, or "NONE"
InputValidation(body) ==
    IF ~Truthy(body.txHash) \/ ~IsString(body.txHash)
       \/ ~startsWith(body.txHash, <<"0","x">>)
    THEN "INVALID_TX_HASH"
    ELSE IF ~Truthy(body.token) \/ ~IsString(body.token)
    THEN "MISSING_TOKEN"
    ELSE IF ~Truthy(body.walletAddress) \/ ~isAddress(body.walletAddress)
    THEN "INVALID_ADDRESS"
    ELSE "NONE"

\* token checks that report every rejected token as INVALID_TOKEN
TokenChecksOneCode(body, tokenResult) ==
    IF tokenResult.payload = NULL THEN "INVALID_TOKEN"
    ELSE IF getAddress(body.walletAddress) # tokenResult.payload.walletAddress
    THEN "ADDRESS_MISMATCH"
    ELSE IF tokenResult.payload.chainId # BASE_CHAIN_ID
    THEN "WRONG_CHAIN"
    ELSE "NONE"

\* the checks of the token's payload against the request: code or "NONE"
TokenChecks(body, tokenResult) ==
    IF tokenResult.payload = NULL THEN
        IF tokenResult.code = "EXPIRED" THEN "TOKEN_EXPIRED" ELSE "INVALID_TOKEN"
    ELSE IF getAddress(body.walletAddress) # tokenResult.payload.walletAddress
    THEN "ADDRESS_MISMATCH"
    ELSE IF tokenResult.payload.chainId # BASE_CHAIN_ID
    THEN "WRONG_CHAIN"
    ELSE "NONE"

(***************************************************************************)
(* Integers beyond the range of the model's machine integers (a bigint, or *)
(* the mantissa of a double): a sequence of limbs to the base 2^14, least  *)
(* significant first, without leading zero limbs; zero is <<>>.            *)
(***************************************************************************)
RECURSIVE BigTrim(_)
BigTrim(a) ==
    IF a # <<>> /\ a[Len(a)] = 0 THEN BigTrim(SubSeq(a, 1, Len(a) - 1)) ELSE a

\* a natural number below 2^31 as limbs
BigFromInt(n) ==
    BigTrim(<<n % 16384, (n \div 16384) % 16384, n \div (16384 * 16384)>>)

Limb(a, i) == IF i \in 1..Len(a) THEN a[i] ELSE 0

\* the carries of a are propagated
RECURSIVE BigCarry(_, _)
BigCarry(a, carry) ==
    IF a = <<>>
    THEN IF carry = 0 THEN <<>>
         ELSE <<carry % 16384>> \o BigCarry(<<>>, carry \div 16384)
    ELSE LET t == a[1] + carry
         IN <<t % 16384>> \o BigCarry(Tail(a), t \div 16384)

BigAdd(a, b) ==
    LET n == IF Len(a) > Len(b) THEN Len(a) ELSE Len(b)
    IN IF n = 0 THEN <<>>
       ELSE BigTrim(BigCarry([i \in 1..n |-> Limb(a, i) + Limb(b, i)], 0))

\* a - 1, for a > 0
RECURSIVE BigPred(_)
BigPred(a) ==
    IF a[1] > 0 THEN BigTrim([a EXCEPT ![1] = @ - 1])
    ELSE <<16383>> \o BigPred(Tail(a))

\* the k-th column of the schoolbook product: sum of a[i] * b[k + 1 - i]
RECURSIVE BigColumn(_, _, _, _)
BigColumn(a, b, k, i) ==
    IF i > Len(a) THEN 0
    ELSE Limb(a, i) * Limb(b, k + 1 - i) + BigColumn(a, b, k, i + 1)

BigMul(a, b) ==
    IF a = <<>> \/ b = <<>> THEN <<>>
    ELSE BigTrim(BigCarry([k \in 1..(Len(a) + Len(b) - 1) |->
                               BigColumn(a, b, k, 1)], 0))

\* a * 2^s
BigShiftLeft(a, s) ==
    BigMul(a, [i \in 1..(s \div 14 + 1) |-> IF i = s \div 14 + 1 THEN 2^(s % 14) ELSE 0])

\* floor(a / 2^s)
BigShiftRight(a, s) ==
    LET q == s \div 14
        r == s % 14
    IN IF Len(a) <= q THEN <<>>
       ELSE BigTrim([i \in 1..(Len(a) - q) |->
                        (Limb(a, i + q) \div 2^r)
                        + (Limb(a, i + q + 1) % 2^r) * 2^(14 - r)])

\* a is a multiple of 2^s
BigLowBitsZero(a, s) ==
    /\ \A i \in 1..(s \div 14) : Limb(a, i) = 0
    /\ Limb(a, s \div 14 + 1) % 2^(s % 14) = 0

\* bit k of a, bit 0 the least significant
BigBit(a, k) == (Limb(a, k \div 14 + 1) \div 2^(k % 14)) % 2

\* the number of bits of a
BigBitLength(a) ==
    IF a = <<>> THEN 0
    ELSE 14 * (Len(a) - 1)
         + (CHOOSE k \in 1..14 : 2^(k - 1) <= a[Len(a)] /\ a[Len(a)] < 2^k)

\* the number of zero bits at the low end of a, for a > 0
BigTrailingZeros(a) ==
    CHOOSE s \in 0..(14 * Len(a)) : BigLowBitsZero(a, s) /\ BigBit(a, s) = 1

\* quotient (with leading zero limbs) and remainder of a by d, for d <= 2^17
RECURSIVE BigDivMod(_, _)
BigDivMod(a, d) ==
    IF a = <<>> THEN [q |-> <<>>, r |-> 0]
    ELSE LET hi == BigDivMod(Tail(a), d)
             t == hi.r * 16384 + a[1]
         IN [q |-> <<t \div d>> \o hi.q, r |-> t % d]

\* a < b
BigLess(a, b) ==
    \/ Len(a) < Len(b)
    \/ /\ Len(a) = Len(b)
       /\ \E i \in 1..Len(a) :
              /\ a[i] < b[i]
              /\ \A j \in (i + 1)..Len(a) : a[j] = b[j]

\* the value of a string of decimal digits
RECURSIVE BigFromString(_)
BigFromString(s) ==
    IF s = <<>> THEN <<>>
    ELSE BigAdd(BigMul(BigFromString(SubSeq(s, 1, Len(s) - 1)), <<10>>),
                BigFromInt(DigitValue(s[Len(s)])))

RECURSIVE BigDigits(_)
BigDigits(a) ==
    IF a = <<>> THEN <<>>
    ELSE LET dm == BigDivMod(a, 10)
         IN Append(BigDigits(BigTrim(dm.q)), Digits[dm.r + 1])

\* bigint.toString()
BigToString(a) == IF a = <<>> THEN <<"0">> ELSE BigDigits(a)

\* BigInt(string): the digits' value; throws (ok FALSE) on anything else
BigInt(v) ==
    IF v = UNDEFINED THEN [ok |-> FALSE, val |-> <<>>]
    ELSE IF Len(v) = 0 THEN [ok |-> TRUE, val |-> <<>>]
    ELSE IF IsDigits(v) THEN [ok |-> TRUE, val |-> BigFromString(v)]
    ELSE [ok |-> FALSE, val |-> <<>>]

\* an amount test that also refuses the exact amount
AmountNotAbove(value, required) == ~BigLess(required, value)

\* transaction.value < requiredAmountWei
AmountTooLow(value, required) == BigLess(value, required)

\* the chain checks without the sender check
ChainChecksNoSender(tokenPayload, receipt, transaction) ==
    IF receipt.status # "success" THEN "TX_FAILED"
    ELSE IF ~Truthy(transaction.to)
            \/ getAddress(transaction.to) # tokenPayload.treasuryAddress
    THEN "WRONG_RECIPIENT"
    ELSE IF ~BigInt(tokenPayload.requiredAmountWei).ok THEN "THROW"
    ELSE IF BigLess(transaction.value, BigInt(tokenPayload.requiredAmountWei).val)
    THEN "INSUFFICIENT_AMOUNT"
    ELSE "NONE"

\* the chain checks with the amount looked at before recipient and sender
ChainChecksAmountFirst(tokenPayload, receipt, transaction) ==
    IF receipt.status # "success" THEN "TX_FAILED"
    ELSE IF ~BigInt(tokenPayload.requiredAmountWei).ok THEN "THROW"
    ELSE IF BigLess(transaction.value, BigInt(tokenPayload.requiredAmountWei).val)
    THEN "INSUFFICIENT_AMOUNT"
    ELSE IF ~Truthy(transaction.to)
            \/ getAddress(transaction.to) # tokenPayload.treasuryAddress
    THEN "WRONG_RECIPIENT"
    ELSE IF getAddress(transaction.from) # tokenPayload.walletAddress
    THEN "WRONG_SENDER"
    ELSE "NONE"

\* the chain checks with the recipient compared as the chain wrote it
ChainChecksRawRecipient(tokenPayload, receipt, transaction) ==
    IF receipt.status # "success" THEN "TX_FAILED"
    ELSE IF ~Truthy(transaction.to) \/ transaction.to # tokenPayload.treasuryAddress
    THEN "WRONG_RECIPIENT"
    ELSE IF getAddress(transaction.from) # tokenPayload.walletAddress
    THEN "WRONG_SENDER"
    ELSE IF ~BigInt(tokenPayload.requiredAmountWei).ok THEN "THROW"
    ELSE IF BigLess(transaction.value, BigInt(tokenPayload.requiredAmountWei).val)
    THEN "INSUFFICIENT_AMOUNT"
    ELSE "NONE"

\* the checks of receipt and transaction against the token: the code of the
\* first failure, "THROW" where the code throws, or "NONE"
ChainChecks(tokenPayload, receipt, transaction) ==
    IF receipt.status # "success" THEN "TX_FAILED"
    ELSE IF ~Truthy(transaction.to)
            \/ getAddress(transaction.to) # tokenPayload.treasuryAddress
    THEN "WRONG_RECIPIENT"
    ELSE IF getAddress(transaction.from) # tokenPayload.walletAddress
    THEN "WRONG_SENDER"
    ELSE IF ~BigInt(tokenPayload.requiredAmountWei).ok THEN "THROW"
    ELSE IF AmountTooLow(transaction.value, BigInt(tokenPayload.requiredAmountWei).val)
    THEN "INSUFFICIENT_AMOUNT"
    ELSE "NONE"

\* the distance between the blocks, without the block of the receipt itself
ConfirmationsExclusive(currentBlock, receipt) == currentBlock - receipt.blockNumber

\* confirmations = currentBlock - receipt.blockNumber + 1n
Confirmations(currentBlock, receipt) == currentBlock - receipt.blockNumber + 1

Bump(count, h) ==
    IF h \in DOMAIN count THEN [count EXCEPT ![h] = @ + 1] ELSE count @@ (h :> 1)

\* the request of slot r ends with response resp
Respond(r, req, resp) ==
    /\ reqs' = [reqs EXCEPT ![r] = [req EXCEPT !.pc = "done", !.resp = resp]]
    /\ freshPaid' = IF resp.paid /\ resp.code = "NONE"
                    THEN Bump(freshPaid, toLowerCase(req.body.txHash))
                    ELSE freshPaid
    /\ anyPaid' = IF resp.paid THEN Bump(anyPaid, toLowerCase(req.body.txHash))
                  ELSE anyPaid

\* the request of slot r goes on to its next await
Continue(r, req) ==
    /\ reqs' = [reqs EXCEPT ![r] = req]
    /\ UNCHANGED <<freshPaid, anyPaid>>

\* a request arrives: getValidatedConfig()
POST_start(r, body) ==
    /\ reqs[r].pc \in {"idle", "done"}
    /\ served < MaxRequests
    /\ served' = served + 1
    /\ LET req == [IdleRequest EXCEPT
                     !.body = body,
                     !.usedAtStart =
                         /\ body.parsable
                         /\ IsString(body.txHash)
                         /\ \E h \in usedTxHashes :
                                toLowerCase(h) = toLowerCase(body.txHash)]
       IN IF ~serverConfig.isValid
          THEN Respond(r, req, Failure(503, "CONFIG_ERROR", FALSE))
          ELSE Continue(r, [req EXCEPT !.pc = "json"])
    /\ UNCHANGED <<now, env, cachedSecret, usedTxHashes, serverConfig, lastCall, tok, intent,
                    instance, gate, home>>

\* the body is read: input validation, anti-replay check, token verification
POST_body(r) ==
    /\ reqs[r].pc = "json"
    /\ LET req == reqs[r]
           body == req.body
           input == InputValidation(body)
           secret == getSigningSecret(cachedSecret, env)
       IN \* request.json() throws; so does the log line's .substring on a
          \* txHash or walletAddress that is no string
          IF ~body.parsable \/ body.txHash = NONSTRING
             \/ body.walletAddress = NONSTRING
          THEN Respond(r, req, InternalError) /\ UNCHANGED cachedSecret
          ELSE IF input # "NONE"
          THEN Respond(r, req, Failure(400, input, FALSE)) /\ UNCHANGED cachedSecret
          ELSE IF isTxHashUsed(body.txHash, usedTxHashes)
          THEN Respond(r, req, AlreadyVerified) /\ UNCHANGED cachedSecret
          ELSE /\ cachedSecret' = secret
               /\ \E tokenResult \in {verifyPaymentToken(body.token, secret, now)} :
                      LET checked == [req EXCEPT !.tokenCalls = 1,
                                                 !.tokenCheckedAt = now,
                                                 !.envSecret =
                                                     env.PAYMENT_TOKEN_SECRET,
                                                 !.secret = secret,
                                                 !.instance = instance,
                                                 !.tokenPayload = tokenResult.payload]
                          check == TokenChecks(body, tokenResult)
                      IN IF check # "NONE"
                         THEN Respond(r, checked, Failure(400, check, FALSE))
                         ELSE Continue(r, [checked EXCEPT !.pc = "rpc",
                                                          !.rpcCalls = 2])
    /\ UNCHANGED <<now, env, usedTxHashes, serverConfig, served, lastCall, tok, intent,
                    instance, gate, home>>

\* a transaction hash as the chain knows them: "0x" and hexadecimal digits
\* (two of them here, sixty-four on the chain)
IsTxHash(v) == AddressRegex(v)

\* getTransactionReceipt and getTransaction have settled; for a hash that is
\* no transaction hash the fetch throws
POST_rpc(r, outcome) ==
    /\ reqs[r].pc = "rpc"
    /\ IsTxHash(reqs[r].body.txHash) \/ ~outcome.ok
    /\ LET req == reqs[r]
           got == [req EXCEPT !.receipt = outcome.receipt,
                              !.transaction = outcome.transaction]
           check == ChainChecks(req.tokenPayload, outcome.receipt, outcome.transaction)
       IN IF ~outcome.ok
          THEN Respond(r, req, Failure(400, "TX_NOT_FOUND", TRUE))
          ELSE IF check = "THROW" THEN Respond(r, got, InternalError)
          ELSE IF check # "NONE" THEN Respond(r, got, Failure(400, check, FALSE))
          ELSE Continue(r, [got EXCEPT !.pc = "block", !.rpcCalls = 3])
    /\ UNCHANGED <<now, env, cachedSecret, usedTxHashes, serverConfig, served,
                   lastCall, tok, intent, instance, gate, home>>

\* getBlockNumber has settled: block is the number, or NaN when it threw
POST_block(r, block) ==
    /\ reqs[r].pc = "block"
    /\ LET req == reqs[r]
           got == [req EXCEPT !.currentBlock = block]
           confirmations == Confirmations(block, req.receipt)
       IN IF block = NaN
          THEN Respond(r, req, InternalError) /\ UNCHANGED usedTxHashes
          ELSE IF confirmations < MIN_CONFIRMATIONS
          THEN Respond(r, got, Pending(confirmations)) /\ UNCHANGED usedTxHashes
          ELSE /\ usedTxHashes' = markTxHashAsUsed(req.body.txHash, usedTxHashes)
               /\ Respond(r, got, Paid(confirmations))
    /\ UNCHANGED <<now, env, cachedSecret, serverConfig, served, lastCall, tok, intent,
                    instance, gate, home>>

\* time passes
Tick ==
    /\ now < MaxNow
    /\ now' = now + 1
    /\ UNCHANGED <<env, cachedSecret, usedTxHashes, serverConfig, reqs, served,
                   freshPaid, anyPaid, lastCall, tok, intent, instance, gate, home>>

(***************************************************************************)
(* IEEE 754 binary64 numbers, positive and normal: [m, e] is m * 2^e with  *)
(* 2^52 <= m < 2^53.  Every operation rounds to nearest, ties to even, as  *)
(* the JavaScript Number operators do.                                     *)
(***************************************************************************)
\* the double nearest to a value in [n * 2^e, (n + 1) * 2^e), above n * 2^e
\* exactly when sticky; a sticky n has more than 54 bits
RoundToDouble(n, e, sticky) ==
    LET bits == BigBitLength(n)
        s == bits - 53
    IN IF bits <= 53
       THEN [m |-> BigShiftLeft(n, 53 - bits), e |-> e - (53 - bits)]
       ELSE LET m0 == BigShiftRight(n, s)
                half == BigBit(n, s - 1) = 1
                rest == sticky \/ ~BigLowBitsZero(n, s - 1)
                up == half /\ (rest \/ BigBit(m0, 0) = 1)
                m1 == IF up THEN BigAdd(m0, <<1>>) ELSE m0
            IN IF BigBitLength(m1) > 53
               THEN [m |-> BigShiftRight(m1, 1), e |-> e + s + 1]
               ELSE [m |-> m1, e |-> e + s]

\* an integer of the model as a double
DblFromInt(n) == RoundToDouble(BigFromInt(n), 0, FALSE)

\* x * y
DblMul(x, y) == RoundToDouble(BigMul(x.m, y.m), x.e + y.e, FALSE)

\* x + y
DblAdd(x, y) ==
    LET lo == IF x.e < y.e THEN x.e ELSE y.e
    IN RoundToDouble(BigAdd(BigShiftLeft(x.m, x.e - lo), BigShiftLeft(y.m, y.e - lo)),
                     lo, FALSE)

\* x / y, for a y whose mantissa is an integer of at most 17 bits times a
\* power of two (every integer up to 2^17 is)
DblDiv(x, y) ==
    LET tz == BigTrailingZeros(y.m)
        odd == BigShiftRight(y.m, tz)
        d == Limb(odd, 1) + 16384 * Limb(odd, 2)
        dm == BigDivMod(BigShiftLeft(x.m, 20), d)
    IN RoundToDouble(BigTrim(dm.q), x.e - 20 - y.e - tz, dm.r # 0)

\* Math.ceil(x) as an integer
DblCeil(x) ==
    IF x.e >= 0 THEN BigShiftLeft(x.m, x.e)
    ELSE IF BigLowBitsZero(x.m, 0 - x.e) THEN BigShiftRight(x.m, 0 - x.e)
    ELSE BigAdd(BigShiftRight(x.m, 0 - x.e), <<1>>)

(***************************************************************************)
(* lib/price and app/api/payments/create-intent.                           *)
(***************************************************************************)
SAFETY_BUFFER_PERCENT == 5
FALLBACK_ETH_GBP_RATE == 2000
INTENT_TTL_MS == 10 * 60 * 1000

\* export const PAYMENT_AMOUNT_GBP = 0.0003: the double nearest to 3/10000
PAYMENT_AMOUNT_GBP == DblDiv(DblFromInt(3), DblFromInt(10000))

\* the literal 1e18
Wei18 == DblMul(DblFromInt(1000000000), DblFromInt(1000000000))

DblZero == [m |-> <<>>, e |-> 0]

\* getEthGbpPrice once the fetch has settled: feed.ok is response.ok of a
\* fetch that did not throw, feed.gbp is data?.ethereum?.gbp where
\* feed.isNumber says it is a number (zero or positive here)
getEthGbpPrice(feed) ==
    IF feed.ok /\ feed.isNumber /\ feed.gbp # DblZero
    THEN [ethPriceGbp |-> feed.gbp, isFallback |-> FALSE]
    ELSE [ethPriceGbp |-> DblFromInt(FALLBACK_ETH_GBP_RATE), isFallback |-> TRUE]

\* a conversion that rounds to the nearest wei below
gbpToWeiFloor(gbpAmount, ethPriceGbp) ==
    LET bufferedAmount ==
            DblMul(gbpAmount,
                   DblAdd(DblFromInt(1),
                          DblDiv(DblFromInt(SAFETY_BUFFER_PERCENT), DblFromInt(100))))
        ethAmount == DblDiv(bufferedAmount, ethPriceGbp)
        wei == DblMul(ethAmount, Wei18)
    IN IF wei.e >= 0 THEN BigShiftLeft(wei.m, wei.e)
       ELSE BigShiftRight(wei.m, 0 - wei.e)

\* a conversion without the safety buffer, rounded to the wei below
gbpToWeiUnbuffered(gbpAmount, ethPriceGbp) ==
    LET wei == DblMul(DblDiv(gbpAmount, ethPriceGbp), Wei18)
    IN IF wei.e >= 0 THEN BigShiftLeft(wei.m, wei.e)
       ELSE BigShiftRight(wei.m, 0 - wei.e)

\* gbpToWei: BigInt(Math.ceil(gbpAmount * (1 + buffer / 100) / price * 1e18))
gbpToWei(gbpAmount, ethPriceGbp) ==
    LET bufferedAmount ==
            DblMul(gbpAmount,
                   DblAdd(DblFromInt(1),
                          DblDiv(DblFromInt(SAFETY_BUFFER_PERCENT), DblFromInt(100))))
        ethAmount == DblDiv(bufferedAmount, ethPriceGbp)
    IN DblCeil(DblMul(ethAmount, Wei18))

\* a double at or above 2^1024 is Infinity
Overflows(x) == x.m # <<>> /\ x.e + 53 > 1024

\* gbpToWei: BigInt(Infinity) throws a RangeError
gbpToWeiThrows(gbpAmount, ethPriceGbp) ==
    LET bufferedAmount ==
            DblMul(gbpAmount,
                   DblAdd(DblFromInt(1),
                          DblDiv(DblFromInt(SAFETY_BUFFER_PERCENT), DblFromInt(100))))
        ethAmount == DblDiv(bufferedAmount, ethPriceGbp)
    IN Overflows(ethAmount) \/ Overflows(DblMul(ethAmount, Wei18))

\* generateNonce: Date.now(), "_", and the hexadecimal of the random bytes
generateNonce(t, randomHex) == NumberToString(t) \o <<"_">> \o randomHex

NoIntentBody == [parsable |-> FALSE, walletAddress |-> UNDEFINED]

NoIntentResponse ==
    [status |-> 0, code |-> "NO_RESPONSE", token |-> UNDEFINED,
     requiredAmountWei |-> UNDEFINED, treasuryAddress |-> UNDEFINED,
     isFallbackPrice |-> FALSE, expiresAt |-> NaN]

\* an error response: { error, code } with the status
IntentFailure(status, code) ==
    [NoIntentResponse EXCEPT !.status = status, !.code = code]

\* what the price feed answered: the fetch failed or was not ok, the price
\* was no number, or it was the number gbp
NoFeed == [ok |-> FALSE, isNumber |-> FALSE, gbp |-> DblZero]

NoHealth == [status |-> "none", configured |-> FALSE, errorCount |-> 0]

\* intent: the create-intent request being handled (pc, body), what it
\* called (bodyReads, priceCalls, signCalls), the price it got, the payload
\* it signed and when, its response, the last response of the health
\* check, what the price feed answered, the secret the token was signed
\* with and the process that handled the request
NoIntent ==
    [pc |-> "idle", body |-> NoIntentBody, bodyReads |-> 0,
     priceCalls |-> 0, signCalls |-> 0, ethPriceGbp |-> DblZero,
     createdAt |-> NaN, payload |-> NULL,
     resp |-> NoIntentResponse, health |-> NoHealth,
     feed |-> NoFeed, secret |-> UNDEFINED, instance |-> 0]

\* a configuration check that lets every request through
RefusedNever(config) == FALSE

\* getValidatedConfig() throws ConfigurationError
Refused(config) == ~config.isValid

\* a health check that reports ready whatever the configuration
HealthReady(config) ==
    [status |-> "ready", configured |-> TRUE, errorCount |-> Cardinality(config.errors)]

\* the body of the health response
Health(config) ==
    [status |-> IF config.isValid THEN "ready" ELSE "misconfigured",
     configured |-> config.isValid,
     errorCount |-> Cardinality(config.errors)]

\* an expiry that is the creation time itself
ExpiryNow(t) == t

\* const expiresAt = Date.now() + INTENT_TTL_MS
Expiry(t) == t + INTENT_TTL_MS

\* a create-intent request arrives (one in a behaviour): getValidatedConfig()
INTENT_start(body) ==
    /\ intent.pc = "idle"
    /\ LET req == [intent EXCEPT !.body = body]
       IN intent' = IF Refused(serverConfig)
                    THEN [req EXCEPT !.pc = "done",
                                     !.resp = IntentFailure(503, "CONFIG_ERROR")]
                    ELSE [req EXCEPT !.pc = "json"]
    /\ UNCHANGED <<now, env, cachedSecret, usedTxHashes, serverConfig, reqs, served,
                   freshPaid, anyPaid, lastCall, tok, instance, gate, home>>

\* the body is read: the wallet address is validated; isAddress throws on a
\* walletAddress that is no string
INTENT_body ==
    /\ intent.pc = "json"
    /\ LET req == [intent EXCEPT !.bodyReads = 1]
           walletAddress == intent.body.walletAddress
       IN intent' =
              IF ~intent.body.parsable \/ walletAddress = NONSTRING
              THEN [req EXCEPT !.pc = "done",
                               !.resp = IntentFailure(500, "INTERNAL_ERROR")]
              ELSE IF ~Truthy(walletAddress) \/ ~isAddress(walletAddress)
              THEN [req EXCEPT !.pc = "done",
                               !.resp = IntentFailure(400, "INVALID_ADDRESS")]
              ELSE [req EXCEPT !.pc = "price", !.priceCalls = 1]
    /\ UNCHANGED <<now, env, cachedSecret, usedTxHashes, serverConfig, reqs, served,
                   freshPaid, anyPaid, lastCall, tok, instance, gate, home>>

\* getEthGbpPrice has settled: amount, expiry, nonce, token and response
INTENT_price(feed, randomHex) ==
    /\ intent.pc = "price"
    /\ LET price == getEthGbpPrice(feed)
           secret == getSigningSecret(cachedSecret, env)
       IN IF gbpToWeiThrows(PAYMENT_AMOUNT_GBP, price.ethPriceGbp)
          THEN /\ cachedSecret' = cachedSecret
               /\ intent' = [intent EXCEPT
                                !.pc = "done", !.feed = feed,
                                !.instance = instance,
                                !.ethPriceGbp = price.ethPriceGbp,
                                !.resp = IntentFailure(500, "INTERNAL_ERROR")]
          ELSE
          /\ cachedSecret' = secret
          /\ \E requiredAmountWei \in {BigToString(gbpToWei(PAYMENT_AMOUNT_GBP,
                                                            price.ethPriceGbp))} :
                 LET payload ==
                         [walletAddress |-> getAddress(intent.body.walletAddress),
                          treasuryAddress |-> serverConfig.treasuryAddress,
                          requiredAmountWei |-> requiredAmountWei,
                          chainId |-> BASE_CHAIN_ID,
                          expiresAt |-> Expiry(now),
                          nonce |-> generateNonce(now, randomHex)]
                 IN intent' =
                        [intent EXCEPT
                           !.pc = "done", !.signCalls = 1, !.createdAt = now,
                           !.feed = feed, !.instance = instance,
                           !.secret = secret,
                           !.ethPriceGbp = price.ethPriceGbp,
                           !.payload = payload,
                           !.resp = [status |-> 200, code |-> "NONE",
                                     token |-> createPaymentToken(payload, secret),
                                     requiredAmountWei |-> requiredAmountWei,
                                     treasuryAddress |-> serverConfig.treasuryAddress,
                                     isFallbackPrice |-> price.isFallback,
                                     expiresAt |-> payload.expiresAt]]
    /\ UNCHANGED <<now, env, usedTxHashes, serverConfig, reqs, served,
                   freshPaid, anyPaid, lastCall, tok, instance, gate, home>>

\* GET /api/payments/create-intent
GET_health ==
    /\ intent' = [intent EXCEPT !.health = Health(serverConfig)]
    /\ UNCHANGED <<now, env, cachedSecret, usedTxHashes, serverConfig, reqs, served,
                   freshPaid, anyPaid, lastCall, tok, instance, gate, home>>

\* process.env.PAYMENT_TOKEN_SECRET is assigned while the process runs
SetEnvSecret(v) ==
    /\ env.PAYMENT_TOKEN_SECRET # v
    /\ env' = [env EXCEPT !.PAYMENT_TOKEN_SECRET = v]
    /\ UNCHANGED <<now, cachedSecret, usedTxHashes, serverConfig, reqs, served,
                   freshPaid, anyPaid, lastCall, tok, intent, instance, gate, home>>

\* time passes: a millisecond, or the life time of an intent once there
\* is one
Elapse(d) ==
    /\ \/ d = 1 /\ now % INTENT_TTL_MS < MaxWait
       \/ d = INTENT_TTL_MS /\ now < INTENT_TTL_MS /\ intent.pc = "done"
    /\ now' = now + d
    /\ UNCHANGED <<env, cachedSecret, usedTxHashes, serverConfig, reqs, served,
                   freshPaid, anyPaid, lastCall, tok, intent, instance, gate, home>>

(***************************************************************************)
(* The inputs the model draws from.                                        *)
(***************************************************************************)
ServerSecret == <<"s","k">>
ForeignSecret == <<"s","x">>

Wallet1 == <<"0","x","a","b">>
Wallet2 == <<"0","x","c","d">>
Treasury == <<"0","x","e","f">>

EnvProduction ==
    [TREASURY_ADDRESS |-> <<" ">> \o Treasury, BASE_RPC_URL |-> UNDEFINED,
     PAYMENT_TOKEN_SECRET |-> ServerSecret, NODE_ENV |-> Production]

EnvNoTreasury == [EnvProduction EXCEPT !.TREASURY_ADDRESS = UNDEFINED]

GoodPayload ==
    [walletAddress |-> getAddress(Wallet1),
     treasuryAddress |-> getAddress(Treasury),
     requiredAmountWei |-> <<"1","0">>,
     chainId |-> BASE_CHAIN_ID,
     expiresAt |-> 1,
     nonce |-> <<"0","_","a","f">>]

\* s with its i-th character replaced by c
ReplaceChar(s, i, c) == [s EXCEPT ![i] = c]

GoodToken == createPaymentToken(GoodPayload, ServerSecret)
Wallet2Token ==
    createPaymentToken([GoodPayload EXCEPT !.walletAddress = getAddress(Wallet2)],
                       ServerSecret)
WrongChainToken ==
    createPaymentToken([GoodPayload EXCEPT !.chainId = 1], ServerSecret)
ForeignToken == createPaymentToken(GoodPayload, ForeignSecret)
TamperedToken == ReplaceChar(GoodToken, 30, IF GoodToken[30] = "A" THEN "B" ELSE "A")
OneSegmentToken == split(GoodToken, ".")[1]
\* a correctly signed token whose payload segment is not JSON
GarbageToken ==
    LET payloadBase64 == Base64UrlEncode(Utf8Bytes(<<"x">>))
    IN payloadBase64 \o <<".">> \o HmacSha256Base64Url(ServerSecret, payloadBase64)

TxHashInputs ==
    {UNDEFINED, <<"0","x","a","1">>, <<"0","x","A","1">>, <<"0","x","b","2">>,
     <<"0","X","a","1">>}

TokenInputs == {UNDEFINED, <<>>, GoodToken, Wallet2Token, TamperedToken}

WalletInputs == {UNDEFINED, Wallet1, getAddress(Wallet1), Wallet2}

GoodBody ==
    [parsable |-> TRUE, txHash |-> <<"0","x","a","1">>, token |-> GoodToken,
     walletAddress |-> Wallet1]

\* every combination of the common inputs, and each rarer input in an
\* otherwise good body
Bodies ==
    {NoBody}
    \cup [parsable : {TRUE}, txHash : TxHashInputs, token : TokenInputs,
          walletAddress : WalletInputs]
    \cup {[GoodBody EXCEPT !.txHash = NONSTRING],
          [GoodBody EXCEPT !.txHash = <<"0","x","z","z">>],
          [GoodBody EXCEPT !.walletAddress = NONSTRING],
          [GoodBody EXCEPT !.walletAddress = <<"0","x","A","b">>],
          [GoodBody EXCEPT !.token = NONSTRING],
          [GoodBody EXCEPT !.token = WrongChainToken],
          [GoodBody EXCEPT !.token = OneSegmentToken],
          [GoodBody EXCEPT !.token = ForeignToken],
          [GoodBody EXCEPT !.token = GarbageToken]}

RequiredWei == BigFromString(GoodPayload.requiredAmountWei)

RpcError == [ok |-> FALSE, receipt |-> NoReceipt, transaction |-> NoTransaction]

RpcResult(status, blockNumber, to, from, value) ==
    [ok |-> TRUE,
     receipt |-> [status |-> status, blockNumber |-> blockNumber],
     transaction |-> [to |-> to, from |-> from, value |-> value]]

RpcOutcomes ==
    {RpcError,
     RpcResult("success", 1, Treasury, Wallet1, RequiredWei),
     RpcResult("success", MaxBlock, Treasury, Wallet1, RequiredWei),
     RpcResult("success", 1, Treasury, Wallet1, BigAdd(RequiredWei, RequiredWei)),
     RpcResult("success", 1, Treasury, Wallet1, BigPred(RequiredWei)),
     RpcResult("reverted", 1, Treasury, Wallet1, RequiredWei),
     RpcResult("success", 1, Wallet2, Wallet1, RequiredWei),
     RpcResult("success", 1, UNDEFINED, Wallet1, RequiredWei),
     RpcResult("success", 1, Treasury, Wallet2, RequiredWei),
     RpcResult("success", 1, Wallet2, Wallet1, BigPred(RequiredWei)),
     RpcResult("reverted", 1, Treasury, Wallet2, BigPred(RequiredWei))}

BlockOutcomes == {NaN} \cup 0..MaxBlock

NoCall == [op |-> "none", arg |-> <<>>, result |-> FALSE, count |-> 0,
           before |-> {}, marked |-> {}]

NoResult == [payload |-> NULL, code |-> "NOT_VERIFIED", hmac |-> FALSE]
NoTok == [origin |-> "none", payload |-> NULL, createdAt |-> NaN, token |-> <<>>,
          at |-> 0, result |-> NoResult, verifiedAt |-> NaN]

(***************************************************************************)
(* components/PaymentGate: the client component that fetches a quote, asks *)
(* the wallet to pay, and has the payment verified.                        *)
(***************************************************************************)
MAX_VERIFY_RETRIES == 10
VERIFY_RETRY_DELAY_MS == 2000
USER_REJECTED_CODE == 4001

\* bounds of one session: intents fetched, transactions sent, verify calls
MaxQuotes == 2
MaxPayments == 2
MaxVerifyCalls == 12

includes(s, sub) ==
    \E i \in 1..(Len(s) - Len(sub) + 1) : SubSeq(s, i, i + Len(sub) - 1) = sub

\* 'rejected', 'denied', 'user rejected', 'user denied', 'rejected the
\* request'
Rejected == <<"r","e","j","e","c","t","e","d">>
Denied == <<"d","e","n","i","e","d">>
UserRejected == <<"u","s","e","r"," ">> \o Rejected
UserDenied == <<"u","s","e","r"," ">> \o Denied
RejectedTheRequest ==
    Rejected \o <<" ","t","h","e"," ","r","e","q","u","e","s","t">>

\* an error thrown by the wallet: whether it is an object, its code and its
\* cause's code (0 when absent), its shortMessage and String(error)
WalletError(isObject, code, causeCode, shortMessage, text) ==
    [isObject |-> isObject, code |-> code, causeCode |-> causeCode,
     shortMessage |-> shortMessage, text |-> text]

NoError == WalletError(FALSE, 0, 0, UNDEFINED, <<>>)

\* a classification that looks at the error code only
isUserRejectionByCode(error) == error.isObject /\ error.code = USER_REJECTED_CODE

isUserRejection(error) ==
    \/ /\ error.isObject
       /\ \/ error.code = USER_REJECTED_CODE
          \/ error.causeCode = USER_REJECTED_CODE
          \/ /\ error.shortMessage # UNDEFINED
             /\ \/ includes(toLowerCase(error.shortMessage), Rejected)
                \/ includes(toLowerCase(error.shortMessage), Denied)
    \/ LET message == toLowerCase(error.text)
       IN \/ includes(message, UserRejected)
          \/ includes(message, UserDenied)
          \/ includes(message, RejectedTheRequest)

\* getAutopayKey: the storage key of a wallet, without its prefix
getAutopayKey(walletAddress) == toLowerCase(walletAddress)

\* disableAutopay: localStorage.setItem(key, '1'); storage is the set of keys
\* that hold '1'
disableAutopay(storage, walletAddress) == storage \cup {getAutopayKey(walletAddress)}

\* the React state of the component
InitialState ==
    [paymentState |-> "idle", intent |-> 0, error |-> "none", txHash |-> 0,
     verifyRetries |-> 0, isAutoRetrying |-> FALSE, needsNewPayment |-> FALSE,
     wasRejected |-> FALSE, autopayDisabledMessage |-> FALSE]

NoTeardown ==
    [done |-> FALSE, timerPending |-> FALSE, calls |-> 0, quoteCalls |-> 0,
     verifyCalls |-> 0, state |-> InitialState]

\* gate: the component (mounted, address, state: its React state, intent
\* and txHash being the number of the quote and of the transaction, 0 for
\* none), what the hooks report (quoteExpired: Date.now() is past the
\* intent's expiresAt; isConfirmed), retryTimeoutRef.current (a timer id, 0
\* for null), the timers pending and the verify calls in flight, each with
\* the values its verifyPayment closure captured, the create-intent calls
\* in flight, the wallet prompt open (the intent it pays, 0 for none),
\* localStorage (autopayDisabled), the number of times the parent's
\* onPaymentConfirmed ran (callbacks), and history: counters of quotes,
\* transactions, verify calls and timers, the intent each transaction paid
\* (paidFor), the transactions seen confirmed, the automatic retries since
\* the last first call and whether every answer since then was
\* retryable:true or paid:true, the paid:true answers handled, the last wallet error and
\* the intents whose payment failed, what was pending at teardown, and what
\* happened after it (late)
MountedGate ==
    [mounted |-> TRUE, address |-> Wallet1, state |-> InitialState,
     quoteExpired |-> FALSE, isConfirmed |-> FALSE,
     retryTimeoutRef |-> 0, timers |-> {}, calls |-> {}, quoteCalls |-> {},
     sending |-> 0, autopayDisabled |-> {}, callbacks |-> 0,
     quotes |-> 0, payments |-> 0, verifyCalls |-> 0, timerSeq |-> 0,
     paidFor |-> {}, confirmedHashes |-> {},
     autoRetries |-> 0, onlyRetryable |-> TRUE, paidAnswers |-> 0,
     sendErrors |-> 0, lastSendError |-> NoError, failedIntents |-> {},
     teardown |-> NoTeardown,
     late |-> [callbacks |-> 0, timers |-> 0, calls |-> 0]]

NoGate == [MountedGate EXCEPT !.mounted = FALSE]

\* a state setter of a component that is no longer mounted does nothing
setState(g, s) == IF g.mounted THEN [g EXCEPT !.state = s] ELSE g

\* what a verifyPayment created by the current render has captured
Closure(g) ==
    [txHash |-> g.state.txHash, token |-> g.state.intent,
     verifyRetries |-> g.state.verifyRetries]

\* clearTimeout(retryTimeoutRef.current)
clearRetryTimeout(g) ==
    [g EXCEPT !.timers = {t \in @ : t.id # g.retryTimeoutRef}]

\* retryTimeoutRef.current = setTimeout(() => verifyPayment(true), delay),
\* from the verifyPayment whose captured values are c
scheduleRetry(g, c) ==
    [g EXCEPT !.timerSeq = @ + 1,
              !.retryTimeoutRef = g.timerSeq + 1,
              !.timers = @ \cup {[id |-> g.timerSeq + 1, closure |-> c,
                                  delay |-> VERIFY_RETRY_DELAY_MS]},
              !.late.timers = IF g.mounted THEN @ ELSE @ + 1]

\* verifyPayment up to its fetch, with the captured values c
verifyPayment(g, c, isRetry) ==
    IF c.txHash = 0 \/ c.token = 0
    THEN setState(g, [g.state EXCEPT !.error = "missing",
                                     !.paymentState = "failed",
                                     !.needsNewPayment = TRUE])
    ELSE LET started ==
                 setState(g, [g.state EXCEPT
                                !.paymentState = IF isRetry THEN @ ELSE "verifying",
                                !.isAutoRetrying = isRetry])
         IN [started EXCEPT
               !.verifyCalls = @ + 1,
               !.calls = @ \cup {[id |-> g.verifyCalls + 1, isRetry |-> isRetry,
                                  closure |-> c]},
               !.autoRetries = IF isRetry THEN @ + 1 ELSE 0,
               !.onlyRetryable = IF isRetry THEN @ ELSE TRUE,
               !.late.calls = IF g.mounted THEN @ ELSE @ + 1]

\* an answer of the verify route, or a fetch that threw
VerifyAnswer(thrown, paid, retryable, code) ==
    [thrown |-> thrown, paid |-> paid, retryable |-> retryable, code |-> code]

\* the rest of the program does not move while the component does
ServerUnchanged ==
    UNCHANGED <<now, env, cachedSecret, usedTxHashes, serverConfig, reqs, served,
                freshPaid, anyPaid, lastCall, tok, intent, instance, home>>

\* the auto-fetch effect and fetchQuote up to its fetch
fetchQuote ==
    /\ gate.mounted
    /\ gate.state.paymentState = "idle"
    /\ gate.quotes < MaxQuotes
    /\ gate' = [setState(gate, [gate.state EXCEPT !.paymentState = "loading_quote",
                                                  !.error = "none",
                                                  !.needsNewPayment = FALSE])
                  EXCEPT !.quotes = @ + 1,
                         !.quoteCalls = @ \cup {gate.quotes + 1}]
    /\ ServerUnchanged

\* create-intent has answered call q: with an intent, or with an error
\* status or a failed fetch
QuoteResponse(q, ok) ==
    /\ q \in gate.quoteCalls
    /\ LET g == [gate EXCEPT !.quoteCalls = @ \ {q}]
       IN gate' =
              IF ok
              THEN [setState(g, [g.state EXCEPT !.intent = q,
                                                !.paymentState = "quote_ready"])
                      EXCEPT !.quoteExpired = IF g.mounted THEN FALSE ELSE @]
              ELSE setState(g, [g.state EXCEPT !.error = "quote",
                                               !.paymentState = "failed"])
    /\ ServerUnchanged

\* Date.now() passes the expiresAt of the quote on display
ExpireQuote ==
    /\ gate.mounted
    /\ gate.state.paymentState = "quote_ready"
    /\ ~gate.quoteExpired
    /\ gate' = [gate EXCEPT !.quoteExpired = TRUE]
    /\ ServerUnchanged

\* the Pay button: handlePayment up to sendTransaction
handlePayment ==
    /\ gate.mounted
    /\ gate.state.paymentState = "quote_ready"
    /\ gate.state.intent # 0
    /\ ~gate.quoteExpired
    /\ gate.payments < MaxPayments
    /\ gate' = [setState(gate, [gate.state EXCEPT
                                  !.paymentState = "awaiting_signature",
                                  !.error = "none",
                                  !.verifyRetries = 0,
                                  !.wasRejected = FALSE])
                  EXCEPT !.payments = @ + 1,
                         !.sending = gate.state.intent]
    /\ ServerUnchanged

\* sendTransaction's onSuccess: the wallet sent the transaction
SendSuccess ==
    /\ gate.sending # 0
    /\ gate' = [setState(gate, [gate.state EXCEPT !.txHash = gate.payments,
                                                  !.paymentState = "tx_pending"])
                  EXCEPT !.sending = 0,
                         !.isConfirmed = FALSE,
                         !.paidFor = @ \cup {<<gate.payments, gate.sending>>}]
    /\ ServerUnchanged

\* sendTransaction's onError (and the catch around it, and the sendError
\* effect, which classify alike)
SendError(err) ==
    /\ gate.sending # 0
    /\ LET rejected == isUserRejection(err)
           s == IF rejected
                THEN [gate.state EXCEPT !.wasRejected = TRUE,
                                        !.autopayDisabledMessage = TRUE,
                                        !.error = "canceled"]
                ELSE [gate.state EXCEPT !.error = "send"]
       IN gate' = [setState(gate, [s EXCEPT !.paymentState = "failed",
                                            !.needsNewPayment = TRUE])
                     EXCEPT !.sending = 0,
                            !.autopayDisabled =
                                IF rejected THEN disableAutopay(@, gate.address)
                                ELSE @,
                            !.sendErrors = @ + 1,
                            !.lastSendError = err,
                            !.failedIntents = @ \cup {gate.sending}]
    /\ ServerUnchanged

\* useWaitForTransactionReceipt reports the receipt of txHash
LocalConfirm ==
    /\ gate.mounted
    /\ gate.state.txHash # 0
    /\ ~gate.isConfirmed
    /\ gate' = [gate EXCEPT !.isConfirmed = TRUE,
                            !.confirmedHashes = @ \cup {gate.state.txHash}]
    /\ ServerUnchanged

\* a start of verification that does not wait for the receipt
StartVerificationUnconfirmed ==
    /\ gate.mounted
    /\ gate.state.txHash # 0
    /\ gate.state.intent # 0
    /\ gate.state.paymentState = "tx_pending"
    /\ gate.verifyCalls < MaxVerifyCalls
    /\ gate' = verifyPayment(gate, Closure(gate), FALSE)
    /\ ServerUnchanged

\* a start of verification in whatever state the component is
StartVerificationAnyState ==
    /\ gate.mounted
    /\ gate.isConfirmed
    /\ gate.state.txHash # 0
    /\ gate.state.intent # 0
    /\ gate.state.paymentState \in {"tx_pending", "verifying"}
    /\ gate.verifyCalls < MaxVerifyCalls
    /\ gate' = verifyPayment(gate, Closure(gate), FALSE)
    /\ ServerUnchanged

\* the effect that starts verification when the transaction is confirmed
StartVerification ==
    /\ gate.mounted
    /\ gate.isConfirmed
    /\ gate.state.txHash # 0
    /\ gate.state.intent # 0
    /\ gate.state.paymentState = "tx_pending"
    /\ gate.verifyCalls < MaxVerifyCalls
    /\ gate' = verifyPayment(gate, Closure(gate), FALSE)
    /\ ServerUnchanged

\* a handler that drops the answer
DropAnswer(g, c, answer) == g

\* verifyPayment from the answer of its fetch on, with the captured values c
HandleAnswer(g, c, answer) ==
    IF answer.thrown
    THEN IF c.verifyRetries < MAX_VERIFY_RETRIES
         THEN scheduleRetry(
                  setState(g, [g.state EXCEPT !.isAutoRetrying = FALSE,
                                              !.verifyRetries = @ + 1]), c)
         ELSE setState(g, [g.state EXCEPT !.isAutoRetrying = FALSE,
                                          !.error = "network",
                                          !.paymentState = "failed",
                                          !.needsNewPayment = FALSE])
    ELSE IF answer.paid
    THEN [setState(g, [g.state EXCEPT !.paymentState = "confirmed",
                                      !.isAutoRetrying = FALSE])
            EXCEPT !.callbacks = @ + 1,
                   !.late.callbacks = IF g.mounted THEN @ ELSE @ + 1]
    ELSE IF answer.retryable /\ c.verifyRetries < MAX_VERIFY_RETRIES
    THEN scheduleRetry(setState(g, [g.state EXCEPT !.verifyRetries = @ + 1]), c)
    ELSE IF answer.code \in {"INVALID_TOKEN", "TOKEN_EXPIRED", "MISSING_TOKEN"}
    THEN setState(g, [g.state EXCEPT !.isAutoRetrying = FALSE,
                                     !.error = "expired",
                                     !.needsNewPayment = TRUE,
                                     !.paymentState = "failed"])
    ELSE IF answer.code \in {"TX_ALREADY_USED", "ALREADY_VERIFIED"}
    THEN [setState(g, [g.state EXCEPT !.isAutoRetrying = FALSE,
                                      !.paymentState = "confirmed"])
            EXCEPT !.callbacks = @ + 1,
                   !.late.callbacks = IF g.mounted THEN @ ELSE @ + 1]
    ELSE IF c.verifyRetries >= MAX_VERIFY_RETRIES
    THEN setState(g, [g.state EXCEPT !.isAutoRetrying = FALSE,
                                     !.error = "timeout",
                                     !.needsNewPayment = FALSE,
                                     !.paymentState = "failed"])
    ELSE setState(g, [g.state EXCEPT !.isAutoRetrying = FALSE,
                                     !.error = "verify",
                                     !.needsNewPayment = ~answer.retryable,
                                     !.paymentState = "failed"])

\* the fetch of a verify call has settled
VerifyResponse(call, answer) ==
    /\ call \in gate.calls
    /\ gate' = HandleAnswer(
                   [gate EXCEPT
                      !.calls = @ \ {call},
                      !.onlyRetryable =
                          @ /\ ~answer.thrown /\ (answer.paid \/ answer.retryable),
                      !.paidAnswers = IF ~answer.thrown /\ answer.paid
                                      THEN @ + 1 ELSE @],
                   call.closure, answer)
    /\ ServerUnchanged

\* a retry timer that fires without calling verifyPayment
RetryTimerIdle(t) ==
    /\ t \in gate.timers
    /\ gate.verifyCalls < MaxVerifyCalls
    /\ gate' = [gate EXCEPT !.timers = @ \ {t}]
    /\ ServerUnchanged

\* a retry timer fires: verifyPayment(true) of the closure that set it
RetryTimer(t) ==
    /\ t \in gate.timers
    /\ gate.verifyCalls < MaxVerifyCalls
    /\ gate' = verifyPayment([gate EXCEPT !.timers = @ \ {t}], t.closure, TRUE)
    /\ ServerUnchanged

\* a retry that looks at hash and token only, not at needsNewPayment
handleRetryKeepingPayment ==
    /\ gate.mounted
    /\ \/ gate.state.paymentState = "failed"
       \/ gate.state.paymentState = "quote_ready" /\ gate.quoteExpired
    /\ LET g == clearRetryTimeout(gate)
           s == [gate.state EXCEPT !.error = "none",
                                   !.verifyRetries = 0,
                                   !.isAutoRetrying = FALSE,
                                   !.autopayDisabledMessage = FALSE]
       IN IF gate.state.txHash # 0 /\ gate.state.intent # 0
          THEN /\ gate.verifyCalls < MaxVerifyCalls
               /\ gate' = verifyPayment(setState(g, s), Closure(gate), FALSE)
          ELSE gate' = setState(g, [s EXCEPT !.paymentState = "idle"])
    /\ ServerUnchanged

\* a retry button that is there in every state
handleRetryAnyState ==
    /\ gate.mounted
    /\ LET g == clearRetryTimeout(gate)
           s == [gate.state EXCEPT !.error = "none",
                                   !.verifyRetries = 0,
                                   !.isAutoRetrying = FALSE,
                                   !.autopayDisabledMessage = FALSE]
       IN IF gate.state.needsNewPayment
          THEN gate' = [setState(g, [s EXCEPT !.txHash = 0,
                                              !.intent = 0,
                                              !.paymentState = "idle",
                                              !.needsNewPayment = FALSE])
                          EXCEPT !.isConfirmed = FALSE]
          ELSE IF gate.state.txHash # 0 /\ gate.state.intent # 0
          THEN /\ gate.verifyCalls < MaxVerifyCalls
               /\ gate' = verifyPayment(setState(g, s), Closure(gate), FALSE)
          ELSE gate' = setState(g, [s EXCEPT !.paymentState = "idle"])
    /\ ServerUnchanged

\* the Retry, Try Again and Get New Quote buttons
handleRetry ==
    /\ gate.mounted
    /\ \/ gate.state.paymentState = "failed"
       \/ gate.state.paymentState = "quote_ready" /\ gate.quoteExpired
    /\ LET g == clearRetryTimeout(gate)
           s == [gate.state EXCEPT !.error = "none",
                                   !.verifyRetries = 0,
                                   !.isAutoRetrying = FALSE,
                                   !.autopayDisabledMessage = FALSE]
       IN IF gate.state.needsNewPayment
          THEN gate' = [setState(g, [s EXCEPT !.txHash = 0,
                                              !.intent = 0,
                                              !.paymentState = "idle",
                                              !.needsNewPayment = FALSE])
                          EXCEPT !.isConfirmed = FALSE]
          ELSE IF gate.state.txHash # 0 /\ gate.state.intent # 0
          THEN /\ gate.verifyCalls < MaxVerifyCalls
               /\ gate' = verifyPayment(setState(g, s), Closure(gate), FALSE)
          ELSE gate' = setState(g, [s EXCEPT !.paymentState = "idle"])
    /\ ServerUnchanged

\* a teardown that leaves the retry timer alone
UnmountKeepingTimer ==
    /\ gate.mounted
    /\ gate' = [gate EXCEPT
                  !.mounted = FALSE,
                  !.sending = 0,
                  !.teardown = [done |-> TRUE,
                                timerPending |-> gate.timers # {},
                                calls |-> Cardinality(gate.calls),
                                quoteCalls |-> Cardinality(gate.quoteCalls),
                                verifyCalls |-> gate.verifyCalls,
                                state |-> gate.state]]
    /\ ServerUnchanged

\* the component is torn down: the cleanup of the mount effect clears the
\* retry timer; the wallet no longer calls back a component that is gone
Unmount ==
    /\ gate.mounted
    /\ gate' = [clearRetryTimeout(gate) EXCEPT
                  !.mounted = FALSE,
                  !.sending = 0,
                  !.teardown = [done |-> TRUE,
                                timerPending |-> gate.timers # {},
                                calls |-> Cardinality(gate.calls),
                                quoteCalls |-> Cardinality(gate.quoteCalls),
                                verifyCalls |-> gate.verifyCalls,
                                state |-> gate.state]]
    /\ ServerUnchanged

(***************************************************************************)
(* app/page (Home) and components/SnakeGame: the run ticket, and the game  *)
(* that is mounted while the ticket is held. Of the board only this is     *)
(* kept: how many turns are queued, and whether the last update ended in a *)
(* collision, after which the snake has not moved.                         *)
(***************************************************************************)
\* bounds of one visit: payments confirmed, and game loop ticks of one game
MaxRuns == 2
MaxTicks == 3

\* SnakeGame: its gameState, gameLoopRef.current (1 for a pending timer, 0
\* for null), directionQueueRef.current.length, and history: the run it was
\* mounted for, its ticks, its starts, its deaths
NoGame ==
    [mounted |-> FALSE, run |-> 0, gameState |-> "IDLE", gameLoopRef |-> 0,
     queue |-> 0, collided |-> FALSE, ticks |-> 0, starts |-> 0, deaths |-> 0]

\* home: Home's state (hasRunTicket, runCount), the game, the timers set by
\* handleDeath in the order they are due (the prompt 100 ms before the
\* notification, a tick at least 140 ms after the tick before), and history:
\* the run started last, the runs started, the ticks that ran after a death
\* of their run, the notifications of each run, and whether a notification
\* revoked the ticket of a later run
NoHome ==
    [hasRunTicket |-> FALSE, runCount |-> 0, game |-> NoGame, timers |-> <<>>,
     lastStarted |-> 0, started |-> 0, lateTicks |-> 0,
     notified |-> [k \in 1..MaxRuns |-> 0], confirmations |-> 0,
     revocations |-> 0, revokedByEarlier |-> FALSE]

\* the rest of the program does not move while page and game do
HomeOnly ==
    UNCHANGED <<now, env, cachedSecret, usedTxHashes, serverConfig, reqs, served,
                freshPaid, anyPaid, lastCall, tok, intent, instance, gate>>

\* Home.handlePaymentConfirmed, called by the PaymentGate that is mounted
\* while there is no ticket; SnakeGame is mounted in its place
handlePaymentConfirmed ==
    /\ ~home.hasRunTicket
    /\ home.runCount < MaxRuns
    /\ home' = [home EXCEPT
                  !.hasRunTicket = TRUE,
                  !.runCount = @ + 1,
                  !.confirmations = @ + 1,
                  !.game = [NoGame EXCEPT !.mounted = TRUE,
                                          !.run = home.runCount + 1]]
    /\ HomeOnly

\* a start button that is also there once the run is over
startGameAgain ==
    /\ home.game.mounted
    /\ home.game.gameState \in {"IDLE", "DEAD_PROMPT"}
    /\ home' = [home EXCEPT
                  !.game.gameState = "PLAYING",
                  !.game.gameLoopRef = 1,
                  !.game.queue = 0,
                  !.game.collided = FALSE,
                  !.game.starts = @ + 1,
                  !.lastStarted = home.game.run,
                  !.started = @ + 1]
    /\ HomeOnly

\* the START GAME button, rendered in IDLE only
startGame ==
    /\ home.game.mounted
    /\ home.game.gameState = "IDLE"
    /\ home' = [home EXCEPT
                  !.game.gameState = "PLAYING",
                  !.game.gameLoopRef = 1,
                  !.game.queue = 0,
                  !.game.collided = FALSE,
                  !.game.starts = @ + 1,
                  !.lastStarted = home.game.run,
                  !.started = @ + 1]
    /\ HomeOnly

\* a direction key or button: a turn is queued, two at most
queueDirection ==
    /\ home.game.mounted
    /\ home.game.gameState = "PLAYING"
    /\ home.game.queue < 2
    /\ home' = [home EXCEPT !.game.queue = @ + 1]
    /\ HomeOnly

togglePause ==
    /\ home.game.mounted
    /\ home.game.gameState \in {"PLAYING", "PAUSED"}
    /\ home' = IF home.game.gameState = "PLAYING"
               THEN [home EXCEPT !.game.gameState = "PAUSED",
                                 !.game.gameLoopRef = 0]
               ELSE [home EXCEPT !.game.gameState = "PLAYING",
                                 !.game.gameLoopRef = 1]
    /\ HomeOnly

\* handleDeath: the state, clearTimeout(gameLoopRef.current), the two timers
handleDeath(h) ==
    [h EXCEPT !.game.gameState = "DYING_ANIMATION",
              !.game.gameLoopRef = 0,
              !.game.deaths = @ + 1,
              !.game.collided = TRUE,
              !.timers = @ \o <<[kind |-> "prompt", run |-> h.game.run,
                                 tick |-> h.game.ticks],
                                [kind |-> "notify", run |-> h.game.run,
                                 tick |-> h.game.ticks]>>]

\* update: a queued turn is taken; the head runs into the snake or not
update(h, collides) ==
    LET turned == [h EXCEPT !.game.queue = IF @ > 0 THEN @ - 1 ELSE 0,
                            !.game.ticks = @ + 1,
                            !.lateTicks = IF h.game.deaths > 0 THEN @ + 1 ELSE @]
    IN IF collides THEN handleDeath(turned)
       ELSE [turned EXCEPT !.game.collided = FALSE]

\* the game loop's timer fires: update(), then the timer is set again.
\* After a collision the snake has not moved: without a queued turn the
\* next update collides again.
gameLoop(collides) ==
    /\ home.game.mounted
    /\ home.game.gameLoopRef = 1
    /\ home.game.ticks < MaxTicks
    /\ (home.game.collided /\ home.game.queue = 0) => collides
    /\ home' = [update(home, collides) EXCEPT !.game.gameLoopRef = 1]
    /\ HomeOnly

\* The notification is due more than INITIAL_GAME_SPEED after the death:
\* a game loop timer set by the tick of that death is due before it.
DueBeforeNextTick(t) ==
    \/ t.kind = "prompt"
    \/ ~(home.game.mounted /\ home.game.run = t.run)
    \/ home.game.gameLoopRef = 0
    \/ home.game.ticks > t.tick
    \/ home.game.ticks >= MaxTicks

\* the timer that is due first fires: the prompt sets the state of the game
\* that set it, if it is still mounted; the notification is
\* Home.handleRunEnded, which takes the ticket, and the game is unmounted
\* (its cleanup clears the game loop's timer)
deathTimer ==
    /\ home.timers # <<>>
    /\ DueBeforeNextTick(Head(home.timers))
    /\ LET t == Head(home.timers)
           h == [home EXCEPT !.timers = Tail(@)]
       IN home' =
              IF t.kind = "prompt"
              THEN IF h.game.mounted /\ h.game.run = t.run
                   THEN [h EXCEPT !.game.gameState = "DEAD_PROMPT"]
                   ELSE h
              ELSE [h EXCEPT
                      !.hasRunTicket = FALSE,
                      !.game.mounted = FALSE,
                      !.game.gameLoopRef = 0,
                      !.notified[t.run] = @ + 1,
                      !.revocations = IF h.hasRunTicket THEN @ + 1 ELSE @,
                      !.revokedByEarlier =
                          @ \/ (h.hasRunTicket /\ h.game.run > t.run)]
    /\ HomeOnly

(***************************************************************************)
(* Spec: one server process handling verify requests one after another.    *)
(***************************************************************************)
Init ==
    /\ now = 0
    /\ env \in {EnvProduction, EnvNoTreasury}
    /\ cachedSecret = SecretAfterLoad(env)
    /\ usedTxHashes = {}
    /\ serverConfig = validateConfig(env)
    /\ reqs = [r \in {1} |-> IdleRequest]
    /\ served = 0
    /\ freshPaid = <<>>
    /\ anyPaid = <<>>
    /\ lastCall = NoCall
    /\ tok = NoTok
    /\ intent = NoIntent
    /\ instance = 1
    /\ gate = NoGate
    /\ home = NoHome

Next ==
    \/ \E r \in DOMAIN reqs, body \in Bodies : POST_start(r, body)
    \/ \E r \in DOMAIN reqs : POST_body(r)
    \/ \E r \in DOMAIN reqs, outcome \in RpcOutcomes : POST_rpc(r, outcome)
    \/ \E r \in DOMAIN reqs, block \in BlockOutcomes : POST_block(r, block)
    \/ Tick

Spec == Init /\ [][Next]_vars

(***************************************************************************)
(* SpecConc: the same server with two requests in flight, interleaving at  *)
(* the awaits.                                                             *)
(***************************************************************************)
ConcBodies ==
    {GoodBody, [GoodBody EXCEPT !.txHash = <<"0","x","A","1">>],
     [GoodBody EXCEPT !.token = TamperedToken],
     [GoodBody EXCEPT !.walletAddress = Wallet2],
     [GoodBody EXCEPT !.txHash = <<"0","x","b","2">>]}

ConcRpcOutcomes ==
    {RpcError,
     RpcResult("success", 1, Treasury, Wallet1, RequiredWei),
     RpcResult("success", 1, Treasury, Wallet1, BigPred(RequiredWei))}

InitConc ==
    /\ now = 0
    /\ env = EnvProduction
    /\ cachedSecret = SecretAfterLoad(env)
    /\ usedTxHashes = {}
    /\ serverConfig = validateConfig(env)
    /\ reqs = [r \in {1, 2} |-> IdleRequest]
    /\ served = 0
    /\ freshPaid = <<>>
    /\ anyPaid = <<>>
    /\ lastCall = NoCall
    /\ tok = NoTok
    /\ intent = NoIntent
    /\ instance = 1
    /\ gate = NoGate
    /\ home = NoHome

NextConc ==
    \/ \E r \in DOMAIN reqs, body \in ConcBodies : POST_start(r, body)
    \/ \E r \in DOMAIN reqs : POST_body(r)
    \/ \E r \in DOMAIN reqs, outcome \in ConcRpcOutcomes : POST_rpc(r, outcome)
    \/ \E r \in DOMAIN reqs, block \in BlockOutcomes : POST_block(r, block)
    \/ Tick

SpecConc == InitConc /\ [][NextConc]_vars

(***************************************************************************)
(* SpecStore: the store module called directly.  lastCall records the call, *)
(* what it returned, the set before it, and every hash passed to           *)
(* markTxHashAsUsed so far.                                                *)
(***************************************************************************)
StoreHashInputs ==
    {<<"0","x","a","1">>, <<"0","x","A","1">>, <<"0","x","b","2">>,
     <<"0","x","B","2">>, <<"0","x","c","3">>, <<"0","x","1","2">>}

CallIsTxHashUsed(h) ==
    /\ lastCall' = [op |-> "isTxHashUsed", arg |-> h,
                    result |-> isTxHashUsed(h, usedTxHashes),
                    count |-> lastCall.count,
                    before |-> usedTxHashes, marked |-> lastCall.marked]
    /\ UNCHANGED <<now, env, cachedSecret, usedTxHashes, serverConfig, reqs, served,
                   freshPaid, anyPaid, tok, intent, instance, gate, home>>

CallMarkTxHashAsUsed(h) ==
    /\ usedTxHashes' = markTxHashAsUsed(h, usedTxHashes)
    /\ lastCall' = [op |-> "markTxHashAsUsed", arg |-> h, result |-> FALSE,
                    count |-> lastCall.count,
                    before |-> usedTxHashes, marked |-> lastCall.marked \cup {h}]
    /\ UNCHANGED <<now, env, cachedSecret, serverConfig, reqs, served,
                   freshPaid, anyPaid, tok, intent, instance, gate, home>>

CallGetUsedTxCount ==
    /\ lastCall' = [op |-> "getUsedTxCount", arg |-> <<>>, result |-> FALSE,
                    count |-> getUsedTxCount(usedTxHashes),
                    before |-> usedTxHashes, marked |-> lastCall.marked]
    /\ UNCHANGED <<now, env, cachedSecret, usedTxHashes, serverConfig, reqs, served,
                   freshPaid, anyPaid, tok, intent, instance, gate, home>>

InitStore ==
    /\ now = 0
    /\ env = EnvProduction
    /\ cachedSecret = UNDEFINED
    /\ usedTxHashes = {}
    /\ serverConfig = validateConfig(env)
    /\ reqs = [r \in {1} |-> IdleRequest]
    /\ served = 0
    /\ freshPaid = <<>>
    /\ anyPaid = <<>>
    /\ lastCall = NoCall
    /\ tok = NoTok
    /\ intent = NoIntent
    /\ instance = 1
    /\ gate = NoGate
    /\ home = NoHome

NextStore ==
    \/ \E h \in StoreHashInputs : CallIsTxHashUsed(h)
    \/ \E h \in StoreHashInputs : CallMarkTxHashAsUsed(h)
    \/ CallGetUsedTxCount

SpecStore == InitStore /\ [][NextStore]_vars

(***************************************************************************)
(* SpecToken: the token module called directly.  tok holds the payload a   *)
(* token was created from, the token string (as created, with one          *)
(* character changed, or a string that was never created), and the result  *)
(* of verifying it.  Each behaviour follows one token.                     *)
(***************************************************************************)
PayloadInputs ==
    {GoodPayload,
     [GoodPayload EXCEPT !.expiresAt = 0],
     [GoodPayload EXCEPT !.nonce = <<"1","2","_","\"","\\">>, !.expiresAt = 12,
                         !.requiredAmountWei = <<"1","5","7","5">>]}

\* the characters a token's character is changed to
TamperChars == {"A", "B", "."}

RawTokens ==
    {<<>>, <<".">>, <<".",".">>, <<"a">>, <<"a",".","b",".","c">>,
     OneSegmentToken, GoodToken \o <<".">>, GoodToken \o <<".","x">>,
     GarbageToken, ForeignToken}

CreateToken(payload) ==
    /\ tok.origin = "none"
    /\ LET secret == getSigningSecret(cachedSecret, env)
       IN /\ cachedSecret' = secret
          /\ tok' = [NoTok EXCEPT !.origin = "created", !.payload = payload,
                                  !.createdAt = now,
                                  !.token = createPaymentToken(payload, secret)]
    /\ UNCHANGED <<now, env, usedTxHashes, serverConfig, reqs, served,
                   freshPaid, anyPaid, lastCall, intent, instance, gate, home>>

\* one character of a created token, in either segment, is changed to c
TamperToken(i, c) ==
    /\ tok.origin = "created"
    /\ i \in 1..Len(tok.token)
    /\ tok.token[i] # "."
    /\ tok.token[i] # c
    /\ tok.verifiedAt = NaN
    /\ tok' = [tok EXCEPT !.origin = "tampered", !.at = i, !.createdAt = NaN,
                          !.token = ReplaceChar(tok.token, i, c),
                          !.result = NoResult, !.verifiedAt = NaN]
    /\ UNCHANGED <<now, env, cachedSecret, usedTxHashes, serverConfig, reqs, served,
                   freshPaid, anyPaid, lastCall, intent, instance, gate, home>>

PresentToken(raw) ==
    /\ tok.origin = "none"
    /\ tok' = [NoTok EXCEPT !.origin = "raw", !.token = raw]
    /\ UNCHANGED <<now, env, cachedSecret, usedTxHashes, serverConfig, reqs, served,
                   freshPaid, anyPaid, lastCall, intent, instance, gate, home>>

\* a presented token is verified once
VerifyToken ==
    /\ tok.origin # "none"
    /\ tok.verifiedAt = NaN
    /\ LET secret == getSigningSecret(cachedSecret, env)
       IN /\ cachedSecret' = secret
          /\ tok' = [tok EXCEPT !.result = verifyPaymentToken(tok.token, secret, now),
                                !.verifiedAt = now]
    /\ UNCHANGED <<now, env, usedTxHashes, serverConfig, reqs, served,
                   freshPaid, anyPaid, lastCall, intent, instance, gate, home>>

EnvDevelopment ==
    [EnvProduction EXCEPT !.PAYMENT_TOKEN_SECRET = UNDEFINED,
                          !.NODE_ENV = <<"d","e","v">>]

InitToken ==
    /\ now = 0
    /\ env \in {EnvProduction, EnvDevelopment}
    /\ cachedSecret = UNDEFINED
    /\ usedTxHashes = {}
    /\ serverConfig = validateConfig(env)
    /\ reqs = [r \in {1} |-> IdleRequest]
    /\ served = 0
    /\ freshPaid = <<>>
    /\ anyPaid = <<>>
    /\ lastCall = NoCall
    /\ tok = NoTok
    /\ intent = NoIntent
    /\ instance = 1
    /\ gate = NoGate
    /\ home = NoHome

NextToken ==
    \/ \E payload \in PayloadInputs : CreateToken(payload)
    \/ \E i \in 1..Len(tok.token), c \in TamperChars : TamperToken(i, c)
    \/ \E raw \in RawTokens : PresentToken(raw)
    \/ VerifyToken
    \/ Tick

SpecToken == InitToken /\ [][NextToken]_vars

(***************************************************************************)
(* SpecIntent: one server process serving create-intent, its health check  *)
(* and verify.  The verify requests present the token create-intent        *)
(* returned; the payment they name pays the amount of that token, one wei  *)
(* less, or twice as much.  The process's environment may change while it  *)
(* runs.                                                                   *)
(***************************************************************************)
EnvNoSecret == [EnvProduction EXCEPT !.PAYMENT_TOKEN_SECRET = UNDEFINED]

IntentBodies ==
    {NoIntentBody}
    \cup [parsable : {TRUE},
          walletAddress : {UNDEFINED, NONSTRING, Wallet1, getAddress(Wallet1),
                           <<"0","x","A","b">>}]

\* 1999.5 and 1589.953125
HalfPrice == DblDiv(DblFromInt(3999), DblFromInt(2))
FinePrice == DblDiv(DblFromInt(101757), DblFromInt(64))

PriceFeeds ==
    {[ok |-> FALSE, isNumber |-> FALSE, gbp |-> DblZero],
     [ok |-> TRUE, isNumber |-> FALSE, gbp |-> DblZero],
     [ok |-> TRUE, isNumber |-> TRUE, gbp |-> DblZero],
     [ok |-> TRUE, isNumber |-> TRUE, gbp |-> DblFromInt(FALLBACK_ETH_GBP_RATE)],
     [ok |-> TRUE, isNumber |-> TRUE, gbp |-> DblFromInt(2500)],
     [ok |-> TRUE, isNumber |-> TRUE, gbp |-> HalfPrice],
     [ok |-> TRUE, isNumber |-> TRUE, gbp |-> FinePrice]}

RandomHexInputs == {<<"a","f">>}

\* the verify bodies a client sends once create-intent has answered (one
\* verify request in a behaviour): the token it returned, with the wallet
\* it was made for or another one; without such a token, one made earlier
IssuedBodies ==
    IF served > 0 \/ intent.pc # "done" THEN {}
    ELSE IF intent.resp.code = "NONE"
    THEN {[parsable |-> TRUE, txHash |-> <<"0","x","a","1">>,
           token |-> intent.resp.token, walletAddress |-> w] :
              w \in {intent.body.walletAddress, Wallet2}}
    ELSE {GoodBody}

\* the payments the chain can report for the request of slot r
IssuedRpcOutcomes(r) ==
    IF reqs[r].pc = "rpc"
    THEN LET N == BigInt(reqs[r].tokenPayload.requiredAmountWei).val
             from == reqs[r].body.walletAddress
         IN {RpcError,
             RpcResult("success", 1, Treasury, from, N),
             RpcResult("success", 1, Treasury, from, BigAdd(N, N)),
             RpcResult("success", 1, Treasury, from, BigPred(N)),
             RpcResult("success", 1, Wallet2, from, N)}
    ELSE {}

SecretInputs == {ForeignSecret}

InitIntent ==
    /\ now = 0
    /\ env \in {EnvProduction, EnvDevelopment, EnvNoTreasury, EnvNoSecret}
    /\ cachedSecret = SecretAfterLoad(env)
    /\ usedTxHashes = {}
    /\ serverConfig = validateConfig(env)
    /\ reqs = [r \in {1} |-> IdleRequest]
    /\ served = 0
    /\ freshPaid = <<>>
    /\ anyPaid = <<>>
    /\ lastCall = NoCall
    /\ tok = NoTok
    /\ intent = NoIntent
    /\ instance = 1
    /\ gate = NoGate
    /\ home = NoHome

NextIntent ==
    \/ \E body \in IntentBodies : INTENT_start(body)
    \/ INTENT_body
    \/ \E feed \in PriceFeeds, randomHex \in RandomHexInputs :
           INTENT_price(feed, randomHex)
    \/ GET_health
    \/ \E v \in SecretInputs : SetEnvSecret(v)
    \/ \E d \in {1, INTENT_TTL_MS} : Elapse(d)
    \/ \E r \in DOMAIN reqs, body \in IssuedBodies : POST_start(r, body)
    \/ \E r \in DOMAIN reqs : POST_body(r)
    \/ \E r \in DOMAIN reqs :
           \E outcome \in IssuedRpcOutcomes(r) : POST_rpc(r, outcome)
    \/ \E r \in DOMAIN reqs, block \in {0, 1} : POST_block(r, block)

SpecIntent == InitIntent /\ [][NextIntent]_vars

(***************************************************************************)
(* SpecRates: the create-intent route under a price feed that answers with *)
(* prices from 2^-12 to 131071 * 2^70, with a price too small for the      *)
(* quotient to be a finite double, or with no usable price at all.         *)
(***************************************************************************)
DblScale(x, j) == [x EXCEPT !.e = @ + j]

RateMantissas == {1, 3, 5, 125, 3999, 101757, 131071}

RateExponents == ((0 - 12)..12) \cup {40, 70}

\* 2^-1000
TinyRate == DblScale(DblFromInt(1), 0 - 1000)

FailedFeeds ==
    {[ok |-> FALSE, isNumber |-> FALSE, gbp |-> DblZero],
     [ok |-> TRUE, isNumber |-> FALSE, gbp |-> DblZero],
     [ok |-> TRUE, isNumber |-> TRUE, gbp |-> DblZero]}

RateFeeds ==
    FailedFeeds
    \cup {[ok |-> TRUE, isNumber |-> TRUE, gbp |-> DblScale(DblFromInt(k), j)] :
              k \in RateMantissas, j \in RateExponents}
    \cup {[ok |-> TRUE, isNumber |-> TRUE, gbp |-> TinyRate]}

InitRates ==
    /\ now = 0
    /\ env \in {EnvProduction, EnvDevelopment, EnvNoTreasury}
    /\ cachedSecret = SecretAfterLoad(env)
    /\ usedTxHashes = {}
    /\ serverConfig = validateConfig(env)
    /\ reqs = [r \in {1} |-> IdleRequest]
    /\ served = 0
    /\ freshPaid = <<>>
    /\ anyPaid = <<>>
    /\ lastCall = NoCall
    /\ tok = NoTok
    /\ intent = NoIntent
    /\ instance = 1
    /\ gate = NoGate
    /\ home = NoHome

NextRates ==
    \/ \E body \in IntentBodies : INTENT_start(body)
    \/ INTENT_body
    \/ \E feed \in RateFeeds, randomHex \in RandomHexInputs :
           INTENT_price(feed, randomHex)

SpecRates == InitRates /\ [][NextRates]_vars

(***************************************************************************)
(* SpecInstances: create-intent and verify served by successive instances  *)
(* of the server.  An instance starts with an empty replay set and loads   *)
(* its configuration and signing secret from its own environment, which    *)
(* holds the same secret as the instance before it or another one.         *)
(***************************************************************************)
EnvForeign == [EnvProduction EXCEPT !.PAYMENT_TOKEN_SECRET = ForeignSecret]

\* the next request goes to a new instance; no request is in flight
NewInstance(e) ==
    /\ instance < MaxInstances
    /\ intent.pc \in {"idle", "done"}
    /\ \A r \in DOMAIN reqs : reqs[r].pc \in {"idle", "done"}
    /\ instance' = instance + 1
    /\ env' = e
    /\ cachedSecret' = SecretAfterLoad(e)
    /\ usedTxHashes' = {}
    /\ serverConfig' = validateConfig(e)
    /\ UNCHANGED <<now, reqs, served, freshPaid, anyPaid, lastCall, tok, intent, gate, home>>

InitInstances ==
    /\ now = 0
    /\ env \in {EnvProduction, EnvNoTreasury}
    /\ cachedSecret = SecretAfterLoad(env)
    /\ usedTxHashes = {}
    /\ serverConfig = validateConfig(env)
    /\ reqs = [r \in {1} |-> IdleRequest]
    /\ served = 0
    /\ freshPaid = <<>>
    /\ anyPaid = <<>>
    /\ lastCall = NoCall
    /\ tok = NoTok
    /\ intent = NoIntent
    /\ instance = 1
    /\ gate = NoGate
    /\ home = NoHome

NextInstances ==
    \/ \E body \in IntentBodies : INTENT_start(body)
    \/ INTENT_body
    \/ \E feed \in FailedFeeds, randomHex \in RandomHexInputs :
           INTENT_price(feed, randomHex)
    \/ GET_health
    \/ \E e \in {EnvProduction, EnvForeign} : NewInstance(e)
    \/ \E d \in {1, INTENT_TTL_MS} : Elapse(d)
    \/ \E r \in DOMAIN reqs, body \in IssuedBodies : POST_start(r, body)
    \/ \E r \in DOMAIN reqs : POST_body(r)
    \/ \E r \in DOMAIN reqs :
           \E outcome \in IssuedRpcOutcomes(r) : POST_rpc(r, outcome)
    \/ \E r \in DOMAIN reqs, block \in {0, 1} : POST_block(r, block)

SpecInstances == InitInstances /\ [][NextInstances]_vars

(***************************************************************************)
(* SpecGate: one session of the PaymentGate component, from its mount to   *)
(* its teardown and to the last callback of a call or timer it left        *)
(* behind.  The wallet is connected and on the right chain.  create-intent,*)
(* the wallet and the verify route answer in every way they can.           *)
(***************************************************************************)
VerifyAnswers ==
    {VerifyAnswer(FALSE, TRUE, FALSE, "NONE"),
     VerifyAnswer(FALSE, FALSE, TRUE, "TX_NOT_FOUND"),
     VerifyAnswer(FALSE, FALSE, FALSE, "TOKEN_EXPIRED"),
     VerifyAnswer(FALSE, FALSE, FALSE, "TX_ALREADY_USED"),
     VerifyAnswer(FALSE, FALSE, FALSE, "INSUFFICIENT_AMOUNT"),
     VerifyAnswer(TRUE, FALSE, FALSE, "NONE")}

\* 'Error: failed', 'User rejected the request.', 'Request Denied',
\* 'Insufficient funds', 'Error: no funds'
ErrorFailed == <<"E","r","r","o","r",":"," ","f","a","i","l","e","d">>
UserRejectedTheRequest ==
    <<"U","s","e","r"," ","r","e","j","e","c","t","e","d"," ","t","h","e"," ",
      "r","e","q","u","e","s","t",".">>
RequestDenied == <<"R","e","q","u","e","s","t"," ","D","e","n","i","e","d">>
InsufficientFunds ==
    <<"I","n","s","u","f","f","i","c","i","e","n","t"," ","f","u","n","d","s">>
ErrorNoFunds == <<"E","r","r","o","r",":"," ","n","o"," ","f","u","n","d","s">>

\* wallet errors that are a cancellation by the user: by code, by the code
\* of the cause, by the wording of shortMessage or of String(error)
CancellationErrors ==
    {WalletError(TRUE, USER_REJECTED_CODE, 0, UNDEFINED, ErrorFailed),
     WalletError(TRUE, 0, USER_REJECTED_CODE, UNDEFINED, ErrorFailed),
     WalletError(TRUE, 0, 0, UserRejectedTheRequest, ErrorFailed),
     WalletError(TRUE, 0, 0, RequestDenied, ErrorFailed),
     WalletError(FALSE, 0, 0, UNDEFINED, SubSeq(UserRejectedTheRequest, 1, 13)),
     WalletError(FALSE, 0, 0, UNDEFINED,
                 <<"U","s","e","r"," ","d","e","n","i","e","d">>),
     WalletError(TRUE, 0, 0, UNDEFINED,
                 <<"E","r","r","o","r",":"," ","R">>
                 \o SubSeq(UserRejectedTheRequest, 7, 25))}

\* wallet errors that are no cancellation
OtherErrors ==
    {WalletError(TRUE, 0 - 32000, 0, InsufficientFunds, ErrorNoFunds),
     WalletError(TRUE, 0, 0, UNDEFINED, ErrorFailed)}

InitGate ==
    /\ now = 0
    /\ env = EnvProduction
    /\ cachedSecret = SecretAfterLoad(env)
    /\ usedTxHashes = {}
    /\ serverConfig = validateConfig(env)
    /\ reqs = [r \in {1} |-> IdleRequest]
    /\ served = 0
    /\ freshPaid = <<>>
    /\ anyPaid = <<>>
    /\ lastCall = NoCall
    /\ tok = NoTok
    /\ intent = NoIntent
    /\ instance = 1
    /\ gate \in {[MountedGate EXCEPT !.address = a] :
                    a \in {Wallet1, getAddress(Wallet1)}}
    /\ home = NoHome

NextGate ==
    \/ fetchQuote
    \/ \E q \in gate.quoteCalls, ok \in BOOLEAN : QuoteResponse(q, ok)
    \/ ExpireQuote
    \/ handlePayment
    \/ SendSuccess
    \/ \E err \in CancellationErrors \cup OtherErrors : SendError(err)
    \/ LocalConfirm
    \/ StartVerification
    \/ \E call \in gate.calls, answer \in VerifyAnswers : VerifyResponse(call, answer)
    \/ \E t \in gate.timers : RetryTimer(t)
    \/ handleRetry
    \/ Unmount

SpecGate == InitGate /\ [][NextGate]_vars

(***************************************************************************)
(* SpecConfig: the module that validates the environment is loaded with    *)
(* one of many environments; then requests arrive and the environment      *)
(* changes under the running process.                                      *)
(***************************************************************************)
TreasuryInputs ==
    {UNDEFINED, <<>>, <<" ">>, Treasury, <<" ">> \o Treasury \o <<" ">>,
     getAddress(Treasury), <<"0","x","E","f">>, <<"0","x","e","F">>,
     <<"0","x","z","z">>, <<"e","f">>}

RpcUrlInputs ==
    {UNDEFINED, <<>>, <<" ">>, HttpPrefix \o <<"x">>, HttpsPrefix \o <<"x">>,
     <<" ">> \o HttpsPrefix \o <<"x">>, <<"f","t","p",":","/","/","x">>,
     <<"H","T","T","P",":","/","/","x">>}

ConfigEnvs ==
    [TREASURY_ADDRESS : TreasuryInputs, BASE_RPC_URL : RpcUrlInputs,
     PAYMENT_TOKEN_SECRET : {UNDEFINED, <<>>, ServerSecret},
     NODE_ENV : {UNDEFINED, Production, <<"d","e","v">>}]

InitConfig ==
    /\ now = 0
    /\ env \in ConfigEnvs
    /\ cachedSecret = SecretAfterLoad(env)
    /\ usedTxHashes = {}
    /\ serverConfig = validateConfig(env)
    /\ reqs = [r \in {1} |-> IdleRequest]
    /\ served = 0
    /\ freshPaid = <<>>
    /\ anyPaid = <<>>
    /\ lastCall = NoCall
    /\ tok = NoTok
    /\ intent = NoIntent
    /\ instance = 1
    /\ gate = NoGate
    /\ home = NoHome

NextConfig ==
    \/ INTENT_start([parsable |-> TRUE, walletAddress |-> Wallet1])
    \/ GET_health
    \/ \E r \in DOMAIN reqs : POST_start(r, GoodBody)
    \/ \E v \in {UNDEFINED, ServerSecret} : SetEnvSecret(v)

SpecConfig == InitConfig /\ [][NextConfig]_vars

(***************************************************************************)
(* SpecSession: one session of the component against the two routes, up to *)
(* its first payment. The wallet is honest: the transaction it sends pays  *)
(* the quoted amount from the player's wallet to the treasury. The RPC     *)
(* fails, and the confirmations are short, only while the server has       *)
(* requests left to serve: the chain answers in the end.                   *)
(***************************************************************************)
\* the body of the component's verify fetch
SessionBody ==
    [parsable |-> TRUE, txHash |-> <<"0","x","a","1">>,
     token |-> intent.resp.token, walletAddress |-> gate.address]

\* what the chain can return to the request of slot r for the session's
\* transaction
HonestRpcOutcomes(r) ==
    IF reqs[r].pc = "rpc"
    THEN {RpcResult("success", 1, Treasury, gate.address,
                    BigFromString(intent.resp.requiredAmountWei))}
         \cup (IF served < MaxRequests THEN {RpcError} ELSE {})
    ELSE {}

HonestBlockOutcomes == IF served < MaxRequests THEN {0, 1} ELSE {1}

\* response.json() of the verify fetch
AnswerOf(resp) ==
    VerifyAnswer(FALSE, resp.paid, resp.hasRetryable /\ resp.retryable, resp.code)

\* the create-intent request of the session
QuoteRequest ==
    /\ gate.quoteCalls # {}
    /\ INTENT_start([parsable |-> TRUE, walletAddress |-> gate.address])

QuoteServed ==
    \/ INTENT_body
    \/ \E randomHex \in RandomHexInputs :
           INTENT_price([ok |-> TRUE, isNumber |-> TRUE, gbp |-> DblFromInt(2500)],
                        randomHex)

QuoteDelivered ==
    /\ intent.pc = "done"
    /\ \E q \in gate.quoteCalls : QuoteResponse(q, intent.resp.code = "NONE")

\* the verify request of the call in flight reaches the server
VerifyRequest ==
    /\ \E call \in gate.calls : call.id = served + 1
    /\ \E r \in DOMAIN reqs : POST_start(r, SessionBody)

VerifyServed ==
    \/ \E r \in DOMAIN reqs : POST_body(r)
    \/ \E r \in DOMAIN reqs :
           \E outcome \in HonestRpcOutcomes(r) : POST_rpc(r, outcome)
    \/ \E r \in DOMAIN reqs :
           /\ reqs[r].pc = "block"
           /\ \E block \in HonestBlockOutcomes : POST_block(r, block)

VerifyDelivered ==
    \E r \in DOMAIN reqs, call \in gate.calls :
        /\ reqs[r].pc = "done"
        /\ call.id = served
        /\ VerifyResponse(call, AnswerOf(reqs[r].resp))

NextSession ==
    \/ gate.quotes = 0 /\ fetchQuote
    \/ QuoteRequest
    \/ QuoteServed
    \/ QuoteDelivered
    \/ ExpireQuote
    \/ handlePayment
    \/ SendSuccess
    \/ LocalConfirm
    \/ StartVerification
    \/ VerifyRequest
    \/ VerifyServed
    \/ VerifyDelivered
    \/ \E t \in gate.timers : RetryTimer(t)
    \/ handleRetry
    \/ \E d \in {1, INTENT_TTL_MS} : Elapse(d)

SpecSession == InitGate /\ [][NextSession]_vars

\* the event loops of browser and server run what is ready, the routes
\* answer, and the transaction is confirmed in the end; the player, the
\* wallet and the clock are under no obligation. A route that awaits the
\* price feed, the token check or the RPC goes on: weak fairness of
\* INTENT_price, POST_body and POST_rpc, stated by their guards, which are
\* the positions of the requests.
SessionFairness ==
    /\ WF_vars(QuoteRequest) /\ WF_vars(INTENT_body) /\ WF_vars(QuoteDelivered)
    /\ []<>(intent.pc # "price")
    /\ WF_vars(LocalConfirm) /\ WF_vars(StartVerification)
    /\ WF_vars(VerifyRequest) /\ WF_vars(VerifyDelivered)
    /\ []<>(\A r \in DOMAIN reqs : reqs[r].pc \notin {"json", "rpc"})
    /\ WF_vars(\E r \in DOMAIN reqs :
                   /\ reqs[r].pc = "block"
                   /\ \E block \in HonestBlockOutcomes : POST_block(r, block))
    /\ WF_vars(\E t \in gate.timers : RetryTimer(t))

SpecSessionFair == SpecSession /\ SessionFairness

(***************************************************************************)
(* SpecHome: one visit to the page: payments are confirmed, games are      *)
(* started, played and lost.                                               *)
(***************************************************************************)
NextHome ==
    \/ handlePaymentConfirmed
    \/ startGame
    \/ queueDirection
    \/ togglePause
    \/ \E collides \in BOOLEAN : gameLoop(collides)
    \/ deathTimer

SpecHome == InitGate /\ [][NextHome]_vars


(***************************************************************************)
(* Properties of the verify route                                          *)
(***************************************************************************)
\* the request of slot r has been answered
Answered(r) == reqs[r].pc = "done"

\* the answer is the success response of a full verification
FreshPaid(resp) == resp.paid /\ resp.code = "NONE"

\* the hash of a request as the replay set spells it
HashOf(req) == toLowerCase(req.body.txHash)

\* C1: when requests are handled one after another, each transaction hash
\* gets at most one fresh paid:true (a paid:true without ALREADY_VERIFIED),
\* and a paid:true for a hash that was in the replay set when the request
\* arrived carries the code ALREADY_VERIFIED.
C1_OneFreshPaidPerHash ==
    /\ \A h \in DOMAIN freshPaid : freshPaid[h] <= 1
    /\ \A r \in DOMAIN reqs :
           (Answered(r) /\ reqs[r].usedAtStart /\ reqs[r].resp.paid)
               => reqs[r].resp.code = "ALREADY_VERIFIED"

\* a hash was paid fresh once and then answered again from the already-used
\* branch
C1_Witness ==
    \E r \in DOMAIN reqs :
        /\ Answered(r) /\ reqs[r].usedAtStart
        /\ reqs[r].resp = AlreadyVerified
        /\ HashOf(reqs[r]) \in DOMAIN freshPaid
        /\ freshPaid[HashOf(reqs[r])] = 1
        /\ anyPaid[HashOf(reqs[r])] = 2

\* C2: of two requests for the same transaction hash running concurrently,
\* at most one is answered with the fresh paid:true.
C2_AtomicCheckThenMark ==
    \A r1 \in DOMAIN reqs, r2 \in DOMAIN reqs :
        (/\ r1 # r2
         /\ Answered(r1) /\ Answered(r2)
         /\ FreshPaid(reqs[r1].resp) /\ FreshPaid(reqs[r2].resp))
            => HashOf(reqs[r1]) # HashOf(reqs[r2])

\* C3: for any transaction hash, at most one verify response ever reports
\* paid:true.
C3_OnePaidResponsePerHash == \A h \in DOMAIN anyPaid : anyPaid[h] <= 1

\* the body passes the route's input validation: a txHash string starting
\* with "0x", a non-empty token string, a well-formed walletAddress
WellFormedInput(body) ==
    /\ body.parsable
    /\ IsString(body.txHash) /\ Len(body.txHash) >= 2
    /\ body.txHash[1] = "0" /\ body.txHash[2] = "x"
    /\ IsString(body.token) /\ Len(body.token) > 0
    /\ IsString(body.walletAddress) /\ isAddress(body.walletAddress)

\* the request was answered from the already-used branch, with no token
\* verification and no chain query
AnsweredAlreadyVerified(req) ==
    /\ req.resp = AlreadyVerified
    /\ req.tokenCalls = 0
    /\ req.rpcCalls = 0

\* C4 as stated: a request for a used transaction hash that presents a token
\* is answered paid:true ALREADY_VERIFIED, without verifying the token and
\* without querying the chain.
C4_Original ==
    \A r \in DOMAIN reqs :
        (/\ Answered(r) /\ reqs[r].usedAtStart
         /\ reqs[r].body.txHash[1] = "0" /\ reqs[r].body.txHash[2] = "x"
         /\ IsString(reqs[r].body.token) /\ Len(reqs[r].body.token) > 0)
            => AnsweredAlreadyVerified(reqs[r])

\* C4 (amended): a request for a used transaction hash whose body passes
\* input validation is answered paid:true ALREADY_VERIFIED whatever the
\* token says, without verifying the token and without querying the chain; a
\* request for a used hash is never answered with a fresh paid:true.
C4_UsedHashAlreadyVerified ==
    \A r \in DOMAIN reqs :
        (Answered(r) /\ reqs[r].usedAtStart)
            => /\ WellFormedInput(reqs[r].body) => AnsweredAlreadyVerified(reqs[r])
               /\ ~FreshPaid(reqs[r].resp)

\* a used hash, spelled in the other letter case and presented with a
\* tampered token, was answered ALREADY_VERIFIED
C4_Witness ==
    \E r \in DOMAIN reqs :
        /\ Answered(r) /\ reqs[r].usedAtStart
        /\ reqs[r].body.token = TamperedToken
        /\ reqs[r].body.txHash \notin usedTxHashes
        /\ AnsweredAlreadyVerified(reqs[r])

\* every check of the route, recomputed from what the request saw
AllChecksHeld(req) ==
    LET verified == verifyPaymentToken(req.body.token, cachedSecret,
                                       req.tokenCheckedAt)
    IN /\ req.tokenCalls = 1
       /\ verified.code = "NONE"
       /\ verified.payload # NULL
       /\ req.tokenCheckedAt <= verified.payload.expiresAt
       /\ getAddress(req.body.walletAddress) = verified.payload.walletAddress
       /\ verified.payload.chainId = BASE_CHAIN_ID
       /\ req.receipt # NoReceipt /\ req.transaction # NoTransaction
       /\ req.receipt.status = "success"
       /\ req.transaction.to # UNDEFINED
       /\ getAddress(req.transaction.to) = verified.payload.treasuryAddress
       /\ getAddress(req.transaction.from) = verified.payload.walletAddress
       /\ ~BigLess(req.transaction.value,
                   BigFromString(verified.payload.requiredAmountWei))
       /\ req.currentBlock # NaN
       /\ req.currentBlock - req.receipt.blockNumber + 1 >= MIN_CONFIRMATIONS

\* the requests answered by this step
AnsweredNow(r) == reqs'[r] # reqs[r] /\ reqs'[r].pc = "done"

\* C5: a fresh paid:true is answered, and the hash marked used, only if all
\* the checks held within that request (token signature and expiry, caller
\* address, chainId, receipt and transaction returned, status success,
\* recipient, sender, amount, confirmations); a response with paid:false
\* leaves the replay set unchanged.
C5_FreshPaidOnlyAfterAllChecks ==
    /\ [](\A r \in DOMAIN reqs :
              (Answered(r) /\ FreshPaid(reqs[r].resp))
                  => AllChecksHeld(reqs[r]) /\ HashOf(reqs[r]) \in usedTxHashes)
    /\ [][/\ \A r \in DOMAIN reqs :
                 (AnsweredNow(r) /\ ~reqs'[r].resp.paid)
                     => usedTxHashes' = usedTxHashes
          /\ usedTxHashes' # usedTxHashes
                 => \E r \in DOMAIN reqs :
                        /\ AnsweredNow(r) /\ FreshPaid(reqs'[r].resp)
                        /\ usedTxHashes' = usedTxHashes \cup {HashOf(reqs'[r])}]_vars

\* a request was answered with the fresh paid:true at the expiry instant of
\* its token with exactly the required amount, and its hash is in the set
C5_Witness ==
    \E r \in DOMAIN reqs :
        /\ Answered(r) /\ FreshPaid(reqs[r].resp)
        /\ reqs[r].tokenCheckedAt = GoodPayload.expiresAt
        /\ reqs[r].transaction.value = RequiredWei
        /\ HashOf(reqs[r]) \in usedTxHashes

(***************************************************************************)
(* Properties of the replay guard                                          *)
(***************************************************************************)
\* a and b are the same hash up to letter case
SameIgnoringCase(a, b) ==
    /\ Len(a) = Len(b)
    /\ \A i \in 1..Len(a) : ToLowerTable[a[i]] = ToLowerTable[b[i]]

\* C6: the replay guard is append-only and case-insensitive: once a hash was
\* marked, isTxHashUsed is true of every spelling of it ever after; no call
\* removes a hash; isTxHashUsed and getUsedTxCount leave the set alone;
\* marking a used hash again leaves the set and the count unchanged.
C6_ReplayGuardAppendOnly ==
    /\ lastCall.before \subseteq usedTxHashes
    /\ \A h \in lastCall.marked, other \in StoreHashInputs :
           SameIgnoringCase(h, other) => isTxHashUsed(other, usedTxHashes)
    /\ lastCall.op = "isTxHashUsed"
           => /\ usedTxHashes = lastCall.before
              /\ lastCall.result
                     <=> \E h \in lastCall.marked : SameIgnoringCase(h, lastCall.arg)
    /\ lastCall.op = "getUsedTxCount"
           => /\ usedTxHashes = lastCall.before
              /\ lastCall.count = Cardinality({toLowerCase(h) : h \in lastCall.marked})
    /\ (/\ lastCall.op = "markTxHashAsUsed"
        /\ \E h \in lastCall.before : SameIgnoringCase(h, lastCall.arg))
           => /\ usedTxHashes = lastCall.before
              /\ getUsedTxCount(usedTxHashes) = Cardinality(lastCall.before)

\* a hash marked in one spelling was marked again in another, with another
\* hash in the set, and the set stayed as it was
C6_Witness ==
    /\ lastCall.op = "markTxHashAsUsed"
    /\ lastCall.arg \notin lastCall.before
    /\ \E h \in lastCall.before : SameIgnoringCase(h, lastCall.arg)
    /\ Cardinality(lastCall.before) = 2
    /\ usedTxHashes = lastCall.before

(***************************************************************************)
(* Properties of the payment token                                         *)
(***************************************************************************)
\* the token held in tok has been verified
Verified == tok.origin # "none" /\ tok.verifiedAt # NaN

\* the number of dots of a token: one less than its dot-separated segments
DotCount(token) == Cardinality({i \in 1..Len(token) : token[i] = "."})

\* the position of the dot of a created token
DotAt(token) == CHOOSE i \in 1..Len(token) : token[i] = "."

\* C7: token round trip: for a payload whose expiresAt is in the future,
\* verifying the created token returns a payload equal to it in every field
\* and no error.
C7_TokenRoundTrip ==
    (/\ Verified /\ tok.origin = "created"
     /\ tok.payload.expiresAt > tok.verifiedAt)
        => /\ tok.result.code = "NONE"
           /\ tok.result.payload # NULL
           /\ tok.result.payload.walletAddress = tok.payload.walletAddress
           /\ tok.result.payload.treasuryAddress = tok.payload.treasuryAddress
           /\ tok.result.payload.requiredAmountWei = tok.payload.requiredAmountWei
           /\ tok.result.payload.chainId = tok.payload.chainId
           /\ tok.result.payload.expiresAt = tok.payload.expiresAt
           /\ tok.result.payload.nonce = tok.payload.nonce

\* a payload whose nonce needs escaping in JSON came back equal
C7_Witness ==
    /\ Verified /\ tok.origin = "created"
    /\ tok.payload.expiresAt > tok.verifiedAt
    /\ "\"" \in Range(tok.payload.nonce)
    /\ tok.result.payload = tok.payload

\* C8 as stated: a created token with one character changed, in either
\* segment, is rejected with no payload and the code INVALID_SIGNATURE.
C8_Original ==
    (Verified /\ tok.origin = "tampered")
        => tok.result.payload = NULL /\ tok.result.code = "INVALID_SIGNATURE"

\* C8 (amended): a created token with one character changed, in either
\* segment, is rejected with no payload: with the code INVALID_SIGNATURE when
\* the new character is not a dot, and with INVALID_FORMAT when it is (the
\* token then has three segments).
C8_TamperRejected ==
    (Verified /\ tok.origin = "tampered")
        => /\ tok.result.payload = NULL
           /\ tok.result.code = IF tok.token[tok.at] = "." THEN "INVALID_FORMAT"
                                ELSE "INVALID_SIGNATURE"

\* a character of the payload segment was changed, not to a dot, and the
\* token was rejected for its signature
C8_Witness ==
    /\ Verified /\ tok.origin = "tampered"
    /\ tok.token[tok.at] # "."
    /\ tok.at < DotAt(tok.token)
    /\ tok.result.payload = NULL
    /\ tok.result.code = "INVALID_SIGNATURE"

\* C9: a correctly signed token is rejected with EXPIRED exactly when the
\* time of verification is strictly after its expiresAt, and accepted at any
\* time up to and including expiresAt.
C9_ExpiredExactlyAfterExpiry ==
    (Verified /\ tok.origin = "created")
        => /\ tok.result.code = "EXPIRED" <=> tok.verifiedAt > tok.payload.expiresAt
           /\ tok.result.code = "EXPIRED" => tok.result.payload = NULL
           /\ tok.verifiedAt <= tok.payload.expiresAt
                  => tok.result.code = "NONE" /\ tok.result.payload = tok.payload

\* a correctly signed token was verified one instant after its expiry and
\* rejected
C9_Witness ==
    /\ Verified /\ tok.origin = "created"
    /\ tok.verifiedAt = tok.payload.expiresAt + 1
    /\ tok.result.hmac
    /\ tok.result.code = "EXPIRED"

\* C10: a token string that is not exactly two dot-separated segments is
\* rejected with INVALID_FORMAT, and no signature is computed for it.
C10_InvalidFormat ==
    (Verified /\ tok.token # UNDEFINED /\ DotCount(tok.token) # 1)
        => /\ tok.result.code = "INVALID_FORMAT"
           /\ tok.result.payload = NULL
           /\ ~tok.result.hmac

\* a created token followed by a third segment was rejected for its format
C10_Witness ==
    /\ Verified /\ tok.origin = "raw"
    /\ DotCount(tok.token) = 2
    /\ Len(tok.token) > Len(GoodToken)
    /\ SubSeq(tok.token, 1, Len(GoodToken)) = GoodToken
    /\ tok.result.code = "INVALID_FORMAT"

(***************************************************************************)
(* Properties of the verify route's failures                               *)
(***************************************************************************)
\* the request reached the handler's validation: the configuration is valid
\* and the body was parsed
Validated(req) == serverConfig.isValid /\ req.body.parsable

\* C11: a verify request whose txHash is no well-formed transaction hash
\* string is rejected with INVALID_TX_HASH and retryable:false, before the
\* replay guard and before any chain query.
C11_MalformedTxHashRejected ==
    \A r \in DOMAIN reqs :
        (Answered(r) /\ Validated(reqs[r]) /\ ~IsTxHash(reqs[r].body.txHash))
            => /\ reqs[r].resp.code = "INVALID_TX_HASH"
               /\ reqs[r].resp.hasRetryable /\ ~reqs[r].resp.retryable
               /\ reqs[r].rpcCalls = 0

\* the response is a failure that is not retryable
NotRetryable(resp) == ~resp.paid /\ resp.hasRetryable /\ ~resp.retryable

\* the request, for a hash not yet used, got as far as the token: its txHash
\* passed validation and the log line did not throw
ReachedToken(req) ==
    /\ Validated(req)
    /\ ~req.usedAtStart
    /\ IsString(req.body.txHash) /\ Len(req.body.txHash) >= 2
    /\ req.body.txHash[1] = "0" /\ req.body.txHash[2] = "x"
    /\ req.body.walletAddress # NONSTRING

\* the code verifyPaymentToken gives the request's token at the time the
\* request checked it
TokenCode(req) ==
    verifyPaymentToken(req.body.token, cachedSecret, req.tokenCheckedAt).code

ReachedAmount(req) ==
    /\ req.receipt # NoReceipt
    /\ req.receipt.status = "success"
    /\ req.transaction.to # UNDEFINED
    /\ getAddress(req.transaction.to) = req.tokenPayload.treasuryAddress
    /\ getAddress(req.transaction.from) = req.tokenPayload.walletAddress

\* C13: with the token's requiredAmountWei = N, a transaction value v passes
\* the amount check iff v >= N: N - 1 is answered INSUFFICIENT_AMOUNT,
\* not retryable; N, and any over-payment such as 2N, goes on to the
\* confirmation check.
C13_AmountCheck ==
    \A r \in DOMAIN reqs :
        ReachedAmount(reqs[r])
            => LET N == BigFromString(reqs[r].tokenPayload.requiredAmountWei)
               IN IF ~BigLess(reqs[r].transaction.value, N)
                  THEN /\ reqs[r].rpcCalls = 3
                       /\ reqs[r].resp.code # "INSUFFICIENT_AMOUNT"
                  ELSE /\ Answered(r)
                       /\ reqs[r].resp.code = "INSUFFICIENT_AMOUNT"
                       /\ reqs[r].resp.status = 400
                       /\ NotRetryable(reqs[r].resp)
                       /\ reqs[r].rpcCalls = 2

\* a payment of twice the required amount was answered with the fresh
\* paid:true
C13_Witness ==
    \E r \in DOMAIN reqs :
        /\ ReachedAmount(reqs[r])
        /\ reqs[r].transaction.value
               = BigAdd(BigFromString(reqs[r].tokenPayload.requiredAmountWei),
                        BigFromString(reqs[r].tokenPayload.requiredAmountWei))
        /\ Answered(r) /\ FreshPaid(reqs[r].resp)

\* C14: confirmations are currentBlock - receipt.blockNumber + 1; below
\* MIN_CONFIRMATIONS the response is paid:false PENDING_CONFIRMATIONS,
\* retryable:true, with the current and the required count, and the hash is
\* not marked used; otherwise the request succeeds.
C14_Confirmations ==
    \A r \in DOMAIN reqs :
        (Answered(r) /\ reqs[r].currentBlock # NaN)
            => LET count == reqs[r].currentBlock - reqs[r].receipt.blockNumber + 1
               IN IF count < MIN_CONFIRMATIONS
                  THEN /\ reqs[r].resp.status = 400
                       /\ ~reqs[r].resp.paid
                       /\ reqs[r].resp.code = "PENDING_CONFIRMATIONS"
                       /\ reqs[r].resp.hasRetryable /\ reqs[r].resp.retryable
                       /\ reqs[r].resp.confirmations = count
                       /\ reqs[r].resp.required = MIN_CONFIRMATIONS
                       /\ HashOf(reqs[r]) \notin usedTxHashes
                  ELSE /\ FreshPaid(reqs[r].resp)
                       /\ reqs[r].resp.confirmations = count
                       /\ HashOf(reqs[r]) \in usedTxHashes

\* the current block is the one before the receipt's: zero confirmations,
\* answered PENDING_CONFIRMATIONS
C14_Witness ==
    \E r \in DOMAIN reqs :
        /\ Answered(r)
        /\ reqs[r].currentBlock # NaN
        /\ reqs[r].currentBlock = reqs[r].receipt.blockNumber - 1
        /\ reqs[r].resp.code = "PENDING_CONFIRMATIONS"
        /\ reqs[r].resp.confirmations = 0

\* the codes of the transient failures
TransientCodes == {"TX_NOT_FOUND", "PENDING_CONFIRMATIONS", "INTERNAL_ERROR"}

\* the codes of the failures that no retry can cure
PermanentCodes ==
    {"CONFIG_ERROR", "INVALID_TX_HASH", "MISSING_TOKEN", "INVALID_ADDRESS",
     "TOKEN_EXPIRED", "INVALID_TOKEN", "ADDRESS_MISMATCH", "WRONG_CHAIN",
     "TX_FAILED", "WRONG_RECIPIENT", "WRONG_SENDER", "INSUFFICIENT_AMOUNT"}

\* C15: every failure response of verify carries a retryable flag; the flag
\* is true exactly for TX_NOT_FOUND, PENDING_CONFIRMATIONS and
\* INTERNAL_ERROR, and false for the input, token, address-mismatch,
\* chain-id, status, recipient, sender, amount and configuration failures.
C15_RetryableFlag ==
    \A r \in DOMAIN reqs :
        (Answered(r) /\ ~reqs[r].resp.paid)
            => /\ reqs[r].resp.hasRetryable
               /\ reqs[r].resp.code \in TransientCodes \cup PermanentCodes
               /\ reqs[r].resp.retryable <=> reqs[r].resp.code \in TransientCodes
               /\ reqs[r].resp.code = "TX_NOT_FOUND"
                      => reqs[r].rpcCalls = 2 /\ reqs[r].receipt = NoReceipt

\* the RPC could not return the transaction and the answer invites a retry
C15_Witness ==
    \E r \in DOMAIN reqs :
        /\ Answered(r)
        /\ IsTxHash(reqs[r].body.txHash)
        /\ reqs[r].rpcCalls = 2 /\ reqs[r].receipt = NoReceipt
        /\ reqs[r].resp = Failure(400, "TX_NOT_FOUND", TRUE)

\* the structured response of the outer catch
IsInternalError(resp) ==
    /\ resp.status = 500
    /\ ~resp.paid
    /\ resp.code = "INTERNAL_ERROR"
    /\ resp.hasRetryable /\ resp.retryable

\* the request's getBlockNumber threw
BlockFetchFailed(req) == req.pc = "done" /\ req.rpcCalls = 3 /\ req.currentBlock = NaN

\* C16: an exception raised while handling a verify request (an unparsable
\* body, a failed fetch of the block number) is answered paid:false
\* INTERNAL_ERROR retryable:true with status 500; every request that was taken
\* up gets a structured response; the hash is not marked used.
C16_ExceptionsCaught ==
    /\ [](\A r \in DOMAIN reqs :
              Answered(r)
                  => /\ reqs[r].resp # NoResponse
                     /\ reqs[r].resp.status \in {200, 400, 500, 503}
                     /\ (serverConfig.isValid /\ ~reqs[r].body.parsable)
                            => IsInternalError(reqs[r].resp)
                     /\ BlockFetchFailed(reqs[r])
                            => /\ IsInternalError(reqs[r].resp)
                               /\ HashOf(reqs[r]) \notin usedTxHashes)
    /\ [][\A r \in DOMAIN reqs :
              (AnsweredNow(r) /\ reqs'[r].resp.code = "INTERNAL_ERROR")
                  => usedTxHashes' = usedTxHashes]_vars

\* a request passed every check, its getBlockNumber threw, and it was
\* answered INTERNAL_ERROR
C16_Witness ==
    \E r \in DOMAIN reqs :
        /\ BlockFetchFailed(reqs[r])
        /\ reqs[r].transaction.value = RequiredWei
        /\ IsInternalError(reqs[r].resp)
        /\ HashOf(reqs[r]) \notin usedTxHashes

(***************************************************************************)
(* Properties of create-intent and of the two routes together, under       *)
(* SpecIntent.                                                             *)
(***************************************************************************)
\* C17: with an invalid server configuration every POST create-intent and
\* every POST verify is answered 503 CONFIG_ERROR without its body being
\* read: no request gets past the configuration check, no price is fetched,
\* no token is signed or verified, the chain is not queried and the replay
\* guard stays as it was; the health check answers "misconfigured" with
\* configured false.
C17_FailClosed ==
    ~serverConfig.isValid =>
        /\ intent.pc \in {"idle", "done"}
        /\ intent.pc = "done" =>
               intent.resp.status = 503 /\ intent.resp.code = "CONFIG_ERROR"
        /\ intent.bodyReads = 0 /\ intent.priceCalls = 0 /\ intent.signCalls = 0
        /\ intent.resp.token = UNDEFINED
        /\ \A r \in DOMAIN reqs :
               /\ reqs[r].pc \in {"idle", "done"}
               /\ reqs[r].pc = "done" =>
                      /\ reqs[r].resp.status = 503
                      /\ reqs[r].resp.code = "CONFIG_ERROR"
                      /\ ~reqs[r].resp.paid
               /\ reqs[r].tokenCalls = 0 /\ reqs[r].rpcCalls = 0
        /\ usedTxHashes = {}
        /\ intent.health # NoHealth =>
               intent.health.status = "misconfigured" /\ ~intent.health.configured

\* with an invalid configuration a create-intent and a verify request were
\* both refused and the health check has answered
C17_Witness ==
    /\ ~serverConfig.isValid
    /\ intent.pc = "done" /\ intent.resp.code = "CONFIG_ERROR"
    /\ \E r \in DOMAIN reqs :
           reqs[r].pc = "done" /\ reqs[r].resp.code = "CONFIG_ERROR"
    /\ intent.health.status = "misconfigured"

\* C18: once cachedSecret is set it never changes, whatever the environment
\* variable becomes; so the token create-intent returned, presented to
\* verify at or before its expiry, verifies to the payload that was signed,
\* also when PAYMENT_TOKEN_SECRET was changed in between.
C18_SecretFixed ==
    /\ [][Truthy(cachedSecret) => cachedSecret' = cachedSecret]_vars
    /\ [](\A r \in DOMAIN reqs :
              (/\ reqs[r].tokenCalls = 1
               /\ intent.signCalls = 1
               /\ reqs[r].body.token = intent.resp.token
               /\ reqs[r].tokenCheckedAt <= intent.payload.expiresAt)
                  => reqs[r].tokenPayload = intent.payload)

\* the environment variable no longer held the cached secret when verify
\* checked the token create-intent had signed, and the token verified
C18_Witness ==
    \E r \in DOMAIN reqs :
        /\ intent.signCalls = 1
        /\ reqs[r].tokenCalls = 1
        /\ reqs[r].body.token = intent.resp.token
        /\ reqs[r].envSecret = ForeignSecret
        /\ cachedSecret # ForeignSecret
        /\ reqs[r].tokenPayload = intent.payload

\* the request of slot r presented the token create-intent returned, and
\* verifyPaymentToken was called on it
PresentedIssued(r) ==
    /\ intent.signCalls = 1
    /\ reqs[r].tokenCalls = 1
    /\ reqs[r].body.token = intent.resp.token

\* C19: a token returned by create-intent carries expiresAt = creation time
\* + 600000 ms, later than its creation; the expiresAt of the response is
\* the one verify decodes from the token; a token presented up to that
\* instant is not answered TOKEN_EXPIRED, and one presented later is.
C19_ExpiryIsCreationPlusTtl ==
    intent.signCalls = 1 =>
        /\ intent.payload.expiresAt = intent.createdAt + 600000
        /\ intent.payload.expiresAt > intent.createdAt
        /\ intent.resp.expiresAt = intent.payload.expiresAt
        /\ \A r \in DOMAIN reqs :
               PresentedIssued(r) =>
                   /\ reqs[r].tokenPayload # NULL =>
                          reqs[r].tokenPayload.expiresAt = intent.resp.expiresAt
                   /\ reqs[r].tokenCheckedAt <= intent.createdAt + 600000
                          => /\ reqs[r].tokenPayload # NULL
                             /\ reqs[r].resp.code # "TOKEN_EXPIRED"
                   /\ reqs[r].tokenCheckedAt > intent.createdAt + 600000
                          => reqs[r].resp.code = "TOKEN_EXPIRED"

\* a token was presented in the millisecond of its creation and the request
\* was answered with the fresh paid:true
C19_Witness ==
    \E r \in DOMAIN reqs :
        /\ PresentedIssued(r)
        /\ reqs[r].tokenCheckedAt = intent.createdAt
        /\ Answered(r) /\ FreshPaid(reqs[r].resp)

\* 0.0003 * (1 + 5/100) * 10^18 = 315 * 10^12, as an integer
BufferedWeiPerUnit ==
    BigMul(BigFromInt(315), BigMul(BigFromInt(1000000), BigFromInt(1000000)))

\* ceil(315 * 10^12 / price) in exact arithmetic, for a price odd * 2^k
\* with odd below 2^17
ExactCeilWei(price) ==
    LET tz == BigTrailingZeros(price.m)
        oddPart == BigShiftRight(price.m, tz)
        odd == Limb(oddPart, 1) + 16384 * Limb(oddPart, 2)
        k == price.e + tz
        dm == BigDivMod(IF k < 0 THEN BigShiftLeft(BufferedWeiPerUnit, 0 - k)
                        ELSE BufferedWeiPerUnit, odd)
        q == BigTrim(dm.q)
        shift == IF k > 0 THEN k ELSE 0
        exact == dm.r = 0 /\ BigLowBitsZero(q, shift)
    IN IF exact THEN BigShiftRight(q, shift)
       ELSE BigAdd(BigShiftRight(q, shift), <<1>>)

Wei157500000000 == <<"1","5","7","5","0","0","0","0","0","0","0","0">>

FiatWeiPerUnit ==
    BigMul(BigFromInt(300), BigMul(BigFromInt(1000000), BigFromInt(1000000)))

\* wei * price >= 0.0003 * 10^18, in exact arithmetic
CoversFiat(wei, price) ==
    IF price.e >= 0
    THEN ~BigLess(BigShiftLeft(BigMul(wei, price.m), price.e), FiatWeiPerUnit)
    ELSE ~BigLess(BigMul(wei, price.m), BigShiftLeft(FiatWeiPerUnit, 0 - price.e))

\* C21: at every positive rate the amount signed into the token is not
\* below the unbuffered price converted at the rate used for the quote,
\* 0.0003 / rate * 10^18 wei, and the response shows the amount signed.
C21_NotBelowUnbuffered ==
    intent.signCalls = 1 =>
        /\ CoversFiat(BigFromString(intent.payload.requiredAmountWei),
                      intent.ethPriceGbp)
        /\ intent.resp.requiredAmountWei = intent.payload.requiredAmountWei

\* a token was signed at a fetched rate that is no whole number, and at a
\* rate above 10^20
C21_Witness ==
    /\ intent.signCalls = 1
    /\ ~intent.resp.isFallbackPrice
    /\ intent.ethPriceGbp \in {DblScale(DblFromInt(101757), 0 - 6),
                               DblScale(DblFromInt(3), 70)}

(***************************************************************************)
(* The create-intent route whatever the price feed answers.                *)
(***************************************************************************)
\* the feed gave no usable price: the fetch failed or was not ok, or the
\* price was no number or not positive
FeedFailed(feed) == ~feed.ok \/ ~feed.isNumber \/ feed.gbp = DblZero

\* the request passed the configuration check and the address check
PricedRequest == intent.pc = "done" /\ intent.priceCalls = 1

\* C23: with a valid configuration and a well-formed wallet address the
\* route always answers with a signed token, whatever the price feed does:
\* at the fallback rate with isFallbackPrice true when the feed failed, at
\* the fetched rate with isFallbackPrice false otherwise, and the rate used
\* is positive.
C23_AlwaysSignedToken ==
    PricedRequest =>
        /\ intent.resp.status = 200
        /\ intent.signCalls = 1
        /\ intent.resp.token = createPaymentToken(intent.payload, cachedSecret)
        /\ intent.resp.isFallbackPrice = FeedFailed(intent.feed)
        /\ intent.ethPriceGbp =
               IF FeedFailed(intent.feed) THEN DblFromInt(FALLBACK_ETH_GBP_RATE)
               ELSE intent.feed.gbp
        /\ intent.ethPriceGbp # DblZero

(***************************************************************************)
(* Statelessness of create-intent.                                         *)
(***************************************************************************)
\* C22: no step of a create-intent request, accepted or refused, changes
\* the replay set, the cached secret, the configuration, the environment
\* or a verify request; and whether a token that create-intent issued
\* verifies depends on the token, the verifying instance's secret and the
\* clock alone: an instance holding the secret the token was signed with
\* accepts it until its expiry, whether or not it issued the token, and an
\* instance holding another secret refuses it.
C22_Stateless ==
    /\ [][intent' # intent =>
              UNCHANGED <<usedTxHashes, cachedSecret, serverConfig, env, reqs,
                          served, instance>>]_vars
    /\ [](\A r \in DOMAIN reqs :
              PresentedIssued(r) =>
                  reqs[r].tokenPayload =
                      IF /\ reqs[r].secret = intent.secret
                         /\ reqs[r].tokenCheckedAt <= intent.payload.expiresAt
                      THEN intent.payload
                      ELSE NULL)

\* a token issued by one instance was presented to the next, which holds
\* the same secret, and the payment was answered with the fresh paid:true
C22_Witness ==
    \E r \in DOMAIN reqs :
        /\ PresentedIssued(r)
        /\ reqs[r].instance # intent.instance
        /\ reqs[r].secret = intent.secret
        /\ FreshPaid(reqs[r].resp)

(***************************************************************************)
(* The PaymentGate component: retries, teardown, ordering, send errors.    *)
(***************************************************************************)
\* C24: while the verify route answers retryable:true to every call, a
\* mounted component makes at most MAX_VERIFY_RETRIES automatic retries
\* after the first call, each set VERIFY_RETRY_DELAY_MS after the answer
\* before it, and once the answer to the last of them is handled it is in
\* failed with no timer pending.
C24_RetriesBounded ==
    (gate.mounted /\ gate.onlyRetryable /\ gate.paidAnswers = 0) =>
        /\ gate.autoRetries <= MAX_VERIFY_RETRIES
        /\ \A t \in gate.timers : t.delay = VERIFY_RETRY_DELAY_MS
        /\ (gate.autoRetries = MAX_VERIFY_RETRIES /\ gate.calls = {}) =>
               /\ gate.timers = {}
               /\ gate.state.paymentState = "failed"

C26_TeardownCancelsTimer ==
    (gate.teardown.done /\ gate.teardown.timerPending) =>
        /\ gate.timers = {}
        /\ gate.calls = {}
        /\ gate.verifyCalls = gate.teardown.verifyCalls
        /\ gate.late = [callbacks |-> 0, timers |-> 0, calls |-> 0]
        /\ gate.state = gate.teardown.state

\* the component was torn down in verifying, after a retryable answer,
\* with the timer of the next retry pending
C26_Witness ==
    /\ gate.teardown.done
    /\ gate.teardown.timerPending
    /\ gate.teardown.state.paymentState = "verifying"
    /\ gate.teardown.state.verifyRetries >= 1

\* C27: when the component is torn down while a create-intent or verify
\* call is in flight, the answer is ignored: the state stays what it was,
\* no retry timer is set, no further call is issued and the callback does
\* not run.
C27_LateAnswerIgnored ==
    (gate.teardown.done
     /\ (gate.teardown.calls > 0 \/ gate.teardown.quoteCalls > 0)) =>
        /\ gate.state = gate.teardown.state
        /\ gate.timers = {}
        /\ gate.verifyCalls = gate.teardown.verifyCalls
        /\ gate.late = [callbacks |-> 0, timers |-> 0, calls |-> 0]

\* the values a verify call sends, or will send when its timer fires, are
\* those of a transaction the wallet sent and the component saw confirmed,
\* and of the intent that transaction paid
CarriesPayment(c) ==
    /\ c.txHash # 0
    /\ c.txHash \in gate.confirmedHashes
    /\ <<c.txHash, c.token>> \in gate.paidFor

\* C28: every verify call, first call or retry, is issued after the wallet
\* returned a transaction hash and the component saw its confirmation, and
\* carries that hash with the token of the intent the payment was made for.
C28_VerifyCarriesPayment ==
    /\ \A call \in gate.calls : CarriesPayment(call.closure)
    /\ \A t \in gate.timers : CarriesPayment(t.closure)
    /\ gate.verifyCalls > 0 => gate.confirmedHashes # {}

\* a retry is in flight for the second transaction of the session, which
\* paid the second intent
C28_Witness ==
    \E call \in gate.calls :
        /\ call.isRetry
        /\ call.closure.txHash = 2
        /\ call.closure.token = 2

\* C29: the verify calls of a session are strictly sequential: at most one
\* call is in flight, at most one retry timer is pending, and a timer is
\* pending only when no call is in flight, the answer to the call before it
\* having been handled.
C29_VerifySequential ==
    /\ Cardinality(gate.calls) <= 1
    /\ Cardinality(gate.timers) <= 1
    /\ gate.timers # {} => gate.calls = {}
    /\ \A t \in gate.timers : t.id = gate.retryTimeoutRef

\* after two automatic retries the timer of the third is pending and no
\* call is in flight
C29_Witness ==
    /\ gate.mounted
    /\ gate.autoRetries = 2
    /\ Cardinality(gate.timers) = 1
    /\ gate.calls = {}

\* C30: a failed send takes the component from awaiting_signature to
\* failed.  A cancellation by the user (code 4001, on the error or on its
\* cause, or the wording of a rejection or denial) sets the stored
\* auto-prompt-disabled flag of the wallet, which nothing clears, and
\* leaves the retry counter at 0; any other send error leaves the flag as
\* it was; and after a failed send no payment is attempted on the same
\* intent: a fresh one is fetched first.
C30_SendFailure ==
    /\ [](/\ gate.state.error = "canceled" =>
                /\ gate.state.paymentState = "failed"
                /\ gate.lastSendError \in CancellationErrors
                /\ gate.state.wasRejected
                /\ gate.state.needsNewPayment
                /\ gate.state.verifyRetries = 0
          /\ gate.state.error = "send" =>
                /\ gate.state.paymentState = "failed"
                /\ gate.lastSendError \in OtherErrors
                /\ gate.state.needsNewPayment
                /\ gate.state.verifyRetries = 0
          /\ gate.lastSendError \in CancellationErrors =>
                getAutopayKey(gate.address) \in gate.autopayDisabled
          /\ gate.autopayDisabled \subseteq {toLowerCase(Wallet1)}
          /\ gate.sending # 0 =>
                /\ gate.state.paymentState = "awaiting_signature"
                /\ gate.sending \notin gate.failedIntents)
    /\ [][/\ gate.autopayDisabled \subseteq gate'.autopayDisabled
          /\ gate'.sendErrors = gate.sendErrors + 1 =>
                /\ gate.state.paymentState = "awaiting_signature"
                /\ gate'.state.paymentState = "failed"
                /\ gate'.lastSendError \in OtherErrors =>
                       gate'.autopayDisabled = gate.autopayDisabled]_vars

\* a wallet whose address is written in mixed case cancelled, which the
\* error told by its wording only; the flag is stored under the lower-case
\* address, and a second payment on a fresh intent then failed otherwise
C30_Witness ==
    /\ gate.address # toLowerCase(gate.address)
    /\ gate.sendErrors = 2
    /\ gate.state.error = "send"
    /\ gate.autopayDisabled = {toLowerCase(Wallet1)}
    /\ gate.failedIntents = {1, 2}

(***************************************************************************)
(* The order of the verify route's checks                                  *)
(***************************************************************************)
\* the codes of the checks, in the order the claim lists them; the token
\* verification reports one of two codes
CheckOrder ==
    <<"CONFIG_ERROR", "INVALID_TX_HASH", "MISSING_TOKEN", "INVALID_ADDRESS",
      "ALREADY_VERIFIED", "TOKEN", "ADDRESS_MISMATCH", "WRONG_CHAIN",
      "TX_NOT_FOUND", "TX_FAILED", "WRONG_RECIPIENT", "WRONG_SENDER",
      "INSUFFICIENT_AMOUNT", "PENDING_CONFIRMATIONS">>

\* the token of the request as verifyPaymentToken saw it
TokenSeen(req) ==
    verifyPaymentToken(req.body.token, cachedSecret, req.tokenCheckedAt)

\* the i-th check of CheckOrder fails on what the request presented (seen
\* being what verifyPaymentToken made of its token) and on what the chain
\* returned to it
CheckFails(req, seen, i) ==
    LET body == req.body
    IN CASE i = 1 -> ~serverConfig.isValid
         [] i = 2 -> \/ ~IsString(body.txHash)
                     \/ ~startsWith(body.txHash, <<"0","x">>)
         [] i = 3 -> ~IsString(body.token) \/ body.token = <<>>
         [] i = 4 -> ~IsString(body.walletAddress) \/ ~isAddress(body.walletAddress)
         [] i = 5 -> req.usedAtStart
         [] i = 6 -> seen.payload = NULL
         [] i = 7 -> getAddress(body.walletAddress) # seen.payload.walletAddress
         [] i = 8 -> seen.payload.chainId # BASE_CHAIN_ID
         [] i = 9 -> req.receipt = NoReceipt
         [] i = 10 -> req.receipt.status # "success"
         [] i = 11 -> \/ req.transaction.to = UNDEFINED
                      \/ getAddress(req.transaction.to)
                             # seen.payload.treasuryAddress
         [] i = 12 -> getAddress(req.transaction.from) # seen.payload.walletAddress
         [] i = 13 -> BigLess(req.transaction.value,
                              BigFromString(seen.payload.requiredAmountWei))
         [] i = 14 -> req.currentBlock - req.receipt.blockNumber + 1
                          < MIN_CONFIRMATIONS

\* the first check of CheckOrder from i on that fails, 0 when none does
RECURSIVE FirstFailing(_, _, _)
FirstFailing(req, seen, i) ==
    IF i > Len(CheckOrder) THEN 0
    ELSE IF CheckFails(req, seen, i) THEN i
    ELSE FirstFailing(req, seen, i + 1)

\* the response reports the i-th check
Reports(resp, seen, i) ==
    IF i = 0 THEN FreshPaid(resp)
    ELSE IF i = 5 THEN resp.paid /\ resp.code = "ALREADY_VERIFIED"
    ELSE IF i = 6
    THEN /\ ~resp.paid
         /\ resp.code = IF seen.code = "EXPIRED" THEN "TOKEN_EXPIRED"
                        ELSE "INVALID_TOKEN"
    ELSE ~resp.paid /\ resp.code = CheckOrder[i]

\* a step of the handler threw: request.json(), the log line's .substring on
\* a txHash or walletAddress that is no string, or getBlockNumber
StepThrew(req) ==
    \/ /\ serverConfig.isValid
       /\ \/ ~req.body.parsable
          \/ req.body.txHash = NONSTRING
          \/ req.body.walletAddress = NONSTRING
    \/ BlockFetchFailed(req)

C39_PaidOnlyToSender ==
    \A r \in DOMAIN reqs, p \in DOMAIN reqs :
        (/\ Answered(p) /\ FreshPaid(reqs[p].resp)
         /\ Answered(r) /\ reqs[r].resp.paid
         /\ HashOf(reqs[r]) = HashOf(reqs[p]))
            => getAddress(reqs[r].body.walletAddress)
                   = getAddress(reqs[p].transaction.from)

(***************************************************************************)
(* One token, two transactions                                             *)
(***************************************************************************)
\* C32: a payment token cannot be reused: once a verify request has been
\* answered the fresh paid:true with a token, no request presenting the
\* same token with a different transaction hash is answered paid:true.
C32_TokenNotReused ==
    \A r \in DOMAIN reqs, p \in DOMAIN reqs :
        (/\ Answered(p) /\ FreshPaid(reqs[p].resp)
         /\ Answered(r) /\ reqs[r].resp.paid
         /\ reqs[r].body.token = reqs[p].body.token)
            => HashOf(reqs[r]) = HashOf(reqs[p])

(***************************************************************************)
(* The intent's token and the intent's response                            *)
(***************************************************************************)
\* create-intent answered with an intent
Issued == intent.pc = "done" /\ intent.resp.code = "NONE"

\* the request of slot r presented the issued token and the chain returned
\* to it a successful transaction from the wallet named in the intent
\* request to the treasury of the response, of exactly the amount of the
\* response
PaidAsQuoted(r) ==
    /\ Issued
    /\ reqs[r].body.token = intent.resp.token
    /\ reqs[r].receipt # NoReceipt
    /\ reqs[r].receipt.status = "success"
    /\ reqs[r].transaction.to # UNDEFINED
    /\ getAddress(reqs[r].transaction.to) = intent.resp.treasuryAddress
    /\ getAddress(reqs[r].transaction.from) = getAddress(intent.body.walletAddress)
    /\ reqs[r].transaction.value = BigFromString(intent.resp.requiredAmountWei)

\* C37: the token signed by create-intent agrees with its response and its
\* request: the payload read back from the token holds the
\* requiredAmountWei and the treasuryAddress of the response, the
\* checksummed walletAddress of the request and the chainId of Base; so a
\* transaction from that wallet to the returned treasury with exactly the
\* returned amount passes the recipient, sender and amount checks.
C37_TokenAgreesWithResponse ==
    /\ [][(intent.pc = "price" /\ intent'.pc = "done"
           /\ intent'.resp.code = "NONE")
              => \E seen \in {verifyPaymentToken(intent'.resp.token,
                                                 intent'.secret,
                                                 intent'.createdAt)} :
                     /\ seen.payload # NULL
                     /\ seen.payload.requiredAmountWei
                            = intent'.resp.requiredAmountWei
                     /\ seen.payload.treasuryAddress = intent'.resp.treasuryAddress
                     /\ seen.payload.walletAddress
                            = getAddress(intent.body.walletAddress)
                     /\ seen.payload.chainId = BASE_CHAIN_ID
                     /\ seen.payload.expiresAt = intent'.resp.expiresAt]_vars
    /\ [](\A r \in DOMAIN reqs :
              PaidAsQuoted(r)
                  => /\ reqs[r].rpcCalls = 3
                     /\ Answered(r) =>
                            reqs[r].resp.code
                                \notin {"WRONG_RECIPIENT", "WRONG_SENDER",
                                        "INSUFFICIENT_AMOUNT"})

\* a request paid as quoted, from the wallet written in lower case, was
\* answered paid:true
C37_Witness ==
    \E r \in DOMAIN reqs :
        /\ PaidAsQuoted(r)
        /\ intent.body.walletAddress # getAddress(intent.body.walletAddress)
        /\ reqs[r].transaction.to # intent.resp.treasuryAddress
        /\ Answered(r) /\ FreshPaid(reqs[r].resp)

(***************************************************************************)
(* The server configuration                                                *)
(***************************************************************************)
\* TREASURY_ADDRESS, trimmed, is present and a valid address
TreasuryPresentAndValid(e) ==
    /\ e.TREASURY_ADDRESS # UNDEFINED
    /\ trim(e.TREASURY_ADDRESS) # <<>>
    /\ isAddress(trim(e.TREASURY_ADDRESS))

\* BASE_RPC_URL, trimmed, or the default in its place when it is absent or
\* empty, starts with http:// or https://
RpcUrlAcceptable(e) ==
    LET url == IF e.BASE_RPC_URL = UNDEFINED \/ trim(e.BASE_RPC_URL) = <<>>
               THEN HttpsPrefix \o <<"m","a","i","n","n","e","t">>
               ELSE trim(e.BASE_RPC_URL)
    IN startsWith(url, HttpPrefix) \/ startsWith(url, HttpsPrefix)

\* the process runs in production without PAYMENT_TOKEN_SECRET
ProductionWithoutSecret(e) ==
    /\ e.NODE_ENV = Production
    /\ e.PAYMENT_TOKEN_SECRET = UNDEFINED \/ e.PAYMENT_TOKEN_SECRET = <<>>

\* C34: the server configuration is computed once at module load and never
\* re-evaluated: at load it is valid exactly when its error list is empty,
\* which is exactly when TREASURY_ADDRESS (trimmed) is present and a valid
\* address, BASE_RPC_URL (by default https://mainnet.base.org) starts with
\* http:// or https://, and the process is not in production without
\* PAYMENT_TOKEN_SECRET; afterwards it stays as it is whatever becomes of
\* the environment, and getValidatedConfig throws ConfigurationError (the
\* routes answer 503 CONFIG_ERROR) exactly when it is invalid.
C34_ConfigComputedOnce ==
    /\ (/\ serverConfig.isValid <=> serverConfig.errors = {}
        /\ serverConfig.isValid
               <=> (/\ TreasuryPresentAndValid(env)
                    /\ RpcUrlAcceptable(env)
                    /\ ~ProductionWithoutSecret(env)))
    /\ [][serverConfig' = serverConfig]_vars
    /\ [](/\ intent.pc # "idle"
              => (intent.resp.code = "CONFIG_ERROR" <=> ~serverConfig.isValid)
          /\ \A r \in DOMAIN reqs :
                 reqs[r].pc # "idle"
                     => (reqs[r].resp.code = "CONFIG_ERROR"
                             <=> ~serverConfig.isValid))

\* the process was loaded in production without the secret and with a
\* treasury address and an RPC URL in need of trimming, the secret was set
\* afterwards, and both routes still refuse
C34_Witness ==
    /\ ~serverConfig.isValid
    /\ validateConfig(env).isValid
    /\ env.TREASURY_ADDRESS # trim(env.TREASURY_ADDRESS)
    /\ env.BASE_RPC_URL # UNDEFINED /\ env.BASE_RPC_URL # trim(env.BASE_RPC_URL)
    /\ intent.resp.code = "CONFIG_ERROR"
    /\ \E r \in DOMAIN reqs : reqs[r].resp.code = "CONFIG_ERROR"

(***************************************************************************)
(* An honest payment                                                       *)
(***************************************************************************)
\* the wallet has returned the hash of the session's transaction
HashReturned == gate.state.txHash # 0

\* the token of the session's intent has expired
IntentExpired == intent.signCalls = 1 /\ now > intent.resp.expiresAt

ListedTransitions ==
    {<<"idle", "loading_quote">>,
     <<"loading_quote", "quote_ready">>, <<"loading_quote", "failed">>,
     <<"quote_ready", "awaiting_signature">>,
     <<"awaiting_signature", "tx_pending">>, <<"awaiting_signature", "failed">>,
     <<"tx_pending", "verifying">>,
     <<"verifying", "confirmed">>, <<"verifying", "failed">>,
     <<"failed", "idle">>, <<"failed", "verifying">>}

\* the transition of this step
Transition == <<gate.state.paymentState, gate'.state.paymentState>>

RetryStep ==
    /\ gate.state.paymentState = "failed"
    /\ gate'.state.paymentState # "failed"

\* the failure on display is a token failure, another verifier failure that
\* is not retryable, or a failure of the wallet to send
NeedsNewIntent ==
    \/ gate.state.error \in {"expired", "send", "canceled"}
    \/ gate.state.error = "verify" /\ ~gate.onlyRetryable

\* the failure on display is the retry-ceiling timeout or a network error
KeepsPayment == gate.state.error \in {"timeout", "network"}

C40_LoopStopsAtDeath ==
    /\ home.lateTicks = 0
    /\ home.game.deaths <= 1
    /\ \A k \in DOMAIN home.notified : home.notified[k] <= 1
    /\ ~home.revokedByEarlier

\* C31: pay-per-run: the game is mounted only while the ticket is held; the
\* ticket is granted only by a payment confirmation and every notification
\* of a run's end leaves it revoked; one mount starts at most one run; and
\* every start belongs to a payment confirmed after the run started before.
C31_PayPerRun ==
    /\ [](home.game.mounted => home.hasRunTicket)
    /\ [](home.game.starts <= 1)
    /\ [](home.started <= home.confirmations)
    /\ [][(~home.hasRunTicket /\ home'.hasRunTicket)
              => home'.confirmations = home.confirmations + 1]_vars
    /\ [][home'.notified # home.notified
              => (~home'.hasRunTicket /\ ~home'.game.mounted)]_vars
    /\ [][home'.started # home.started
              => /\ home.hasRunTicket
                 /\ home.game.run = home.confirmations
                 /\ home.game.run > home.lastStarted]_vars

\* a second run is being played, after the first one ended and was paid for
C31_Witness ==
    /\ home.started = 2
    /\ home.confirmations = 2
    /\ home.notified[1] >= 1
    /\ home.game.gameState = "PLAYING"

====
